---------------------------- MODULE Spec2Model ----------------------------
(***************************************************************************)
(* Call-session orchestration of the Audico call system.                   *)
(*                                                                         *)
(* The repository holds two call-handling implementations:                 *)
(*   - the multi-agent server (unnamed/part_006, and its sibling           *)
(*     src/index.js): callStates, /voice/incoming, /voice/conversation,    *)
(*     /voice/status, getAgentResponse;                                    *)
(*   - the IVR router (unnamed/part_003) over IVRService                   *)
(*     (src/services/ivr.js), LLMService (unnamed/part_008) and            *)
(*     TelephonyService (src/services/telephony.js).                       *)
(* Each is modelled as its own state machine over its own variables:       *)
(* Spec (multi-agent server), SpecIVR (IVR router).  SpecEscalation draws  *)
(* the inputs of IVRService.shouldEscalate from bounded sets and applies   *)
(* it once; SpecEngine does the same for one turn of each of the three     *)
(* dialogue engines (getAgentResponse of unnamed/part_006 and of           *)
(* src/index.js, LLMService.generateResponseWithTools).                    *)
(* Handlers are atomic: the turns of a call are taken one after the other. *)
(***************************************************************************)
EXTENDS Integers, Sequences, FiniteSets, TLC

----------------------------------------------------------------------------
(* Bounds of the model.                                                    *)

\* events (webhooks) delivered to the multi-agent server in one behaviour
MaxEvents == 4
\* events (webhooks) delivered to the IVR router in one behaviour
MaxIvrEvents == 4
\* largest counter value drawn for the inputs of shouldEscalate
MaxCounter == 11

----------------------------------------------------------------------------
(* Program constants.                                                      *)

\* history.length > 10 -> slice(-10)
HistoryWindow == 10
\* state.conversationTurns > 10
TurnCeiling == 10
\* state.sentiment === 'negative' && state.conversationTurns > 3
NegativeTurnCeiling == 3
\* state.failedAttempts >= 3
FailureCeiling == 3
\* state.transferAttempts > 2
TransferAttemptCeiling == 2

----------------------------------------------------------------------------
(* Texts.  A text is a JS string; Words gives the words it is made of, in  *)
(* order, and the matching functions of the code (String.includes, the     *)
(* routing and goodbye regular expressions) are computed on these words    *)
(* after lower-casing, as the code does with toLowerCase() and the /i flag.*)

U_EMPTY == ""
U_HUMAN == "I want to speak to a human"
U_TRACK == "track my order 28630"
U_BYE   == "Thank you, goodbye"
U_PLAIN == "do you sell headphones"
U_TRANSFER == "Transfer me to sales please"

Utterances == {U_EMPTY, U_HUMAN, U_TRACK, U_BYE, U_PLAIN, U_TRANSFER}

R_PLAIN == "Sure, I can help with that."
R_SALES == "Let me connect you to our sales team."
R_SHIP  == "Let me connect you to our Shipping team."

\* the texts a provider answer may carry
Replies == {R_PLAIN, R_SALES, R_SHIP}

\* getAgentResponse (catch): return 'Sorry, I did not catch that. ...'
SimpleApology == "Sorry, I did not catch that. Could you please repeat?"
\* /voice/conversation: no speech
Reprompt == "Sorry, I did not hear that. Could you please repeat?"
\* /voice/incoming
Greeting == "Welcome to Audico. How may I direct your call today?"
\* generateResponseWithTools: fallback when the final answer has no text
ToolFallback == "I apologize, I could not process that information."

Words(t) ==
  CASE t = U_EMPTY -> << >>
    [] t = U_HUMAN -> <<"I", "want", "to", "speak", "to", "a", "human">>
    [] t = U_TRACK -> <<"track", "my", "order", "28630">>
    [] t = U_BYE   -> <<"Thank", "you", ",", "goodbye">>
    [] t = U_PLAIN -> <<"do", "you", "sell", "headphones">>
    [] t = U_TRANSFER -> <<"Transfer", "me", "to", "sales", "please">>
    [] t = R_PLAIN -> <<"Sure", ",", "I", "can", "help", "with", "that", ".">>
    [] t = R_SALES -> <<"Let", "me", "connect", "you", "to", "our", "sales", "team", ".">>
    [] t = R_SHIP  -> <<"Let", "me", "connect", "you", "to", "our", "Shipping", "team", ".">>
    [] t = SimpleApology -> <<"Sorry", ",", "I", "did", "not", "catch", "that", ".",
                              "Could", "you", "please", "repeat", "?">>
    [] t = Reprompt -> <<"Sorry", ",", "I", "did", "not", "hear", "that", ".",
                         "Could", "you", "please", "repeat", "?">>
    [] t = Greeting -> <<"Welcome", "to", "Audico", ".", "How", "may", "I", "direct",
                         "your", "call", "today", "?">>
    [] t = ToolFallback -> <<"I", "apologize", ",", "I", "could", "not", "process",
                             "that", "information", ".">>
    [] OTHER -> << >>

\* String.prototype.toLowerCase on one word
LowerWord(w) ==
  CASE w = "I" -> "i"
    [] w = "Thank" -> "thank"
    [] w = "Transfer" -> "transfer"
    [] w = "Sure" -> "sure"
    [] w = "Let" -> "let"
    [] w = "Shipping" -> "shipping"
    [] w = "Sorry" -> "sorry"
    [] w = "Could" -> "could"
    [] w = "Welcome" -> "welcome"
    [] w = "Audico" -> "audico"
    [] w = "How" -> "how"
    [] OTHER -> w

ToLowerCase(ws) == [i \in 1..Len(ws) |-> LowerWord(ws[i])]

\* haystack.includes(needle), both as word sequences
Includes(hay, needle) ==
  \E i \in 1..(Len(hay) - Len(needle) + 1) :
    SubSeq(hay, i, i + Len(needle) - 1) = needle


----------------------------------------------------------------------------
(* State.                                                                  *)

CallIds == {"CA1"}

VARIABLES
  \* multi-agent server (unnamed/part_006)
  callStates,          \* const callStates = new Map()
  callTranscripts,     \* const callTranscripts = new Map()
  sResp,               \* the response sent for the last webhook
  sClock,              \* number of webhooks handled so far (also the clock)
  sCalls,              \* provider calls made by getAgentResponse in the last turn
  sEvent,              \* the last webhook and what its collaborators answered
  \* IVR router (unnamed/part_003, src/services/ivr.js, unnamed/part_008)
  callState,           \* IVRService.callState
  conversationHistory, \* LLMService.conversationHistory
  callLogs,            \* CRMService.callLogs
  iResp,               \* the response sent for the last webhook
  iClock,              \* number of webhooks handled so far (also the clock)
  iCalls,              \* provider calls made by generateResponseWithTools in the last turn
  iEvent,              \* the last webhook and what its collaborators answered
  \* one application of IVRService.shouldEscalate
  escIn,               \* its arguments and the provider's answer
  escOut,              \* its result
  \* one application of a dialogue engine to one turn
  engIn,               \* the engine, the session it finds, and the provider's answers
  engOut,              \* its reply, the session it leaves, the provider calls it made
  \* multi-agent server with its handlers split at their awaits
  objects,             \* the session objects ever created, by identity (index)
  liveStates,          \* callStates: call id -> identity of the object it holds
  inflight,            \* handlers suspended at an await
  savedTranscripts,    \* callTranscripts
  rClock,              \* number of webhooks received so far
  rEvent,              \* the last step taken
  \* audio router (src/index.js)
  audioCache,          \* const audioCache = new Map()
  preGen,              \* preGenerateCommonPhrases: next phrase, preGenerationComplete
  cleanups,            \* pending setTimeout clean-ups of generateAndCacheAudio
  lateRenders,         \* renders still running after prepareAudioUrl timed out
  aClock,              \* time, in hours
  aSteps,              \* number of requests served so far
  aEvent,              \* the last step taken
  \* a request suspended at the network calls it awaits
  wTurn,               \* the request in progress and the await it is suspended at
  wCount,              \* number of requests received so far
  \* ShipLogic webhook (unnamed/part_006) and the OpenCart tables it writes
  orderStatus,         \* oc_order.order_status_id by order_id
  orderHistory,        \* the rows of oc_order_history, in insertion order
  tracking,            \* oc_order_shiplogic_tracking.status by shiplogic_shipment_id
  trackingHistory,     \* the rows of oc_order_shiplogic_tracking_history
  shClock,             \* number of webhooks received so far
  shEvent              \* the last webhook and its answer

simpleVars == <<callStates, callTranscripts, sResp, sClock, sCalls, sEvent>>
ivrVars    == <<callState, conversationHistory, callLogs, iResp, iClock, iCalls, iEvent>>
escVars    == <<escIn, escOut>>
engVars    == <<engIn, engOut>>
raceVars   == <<objects, liveStates, inflight, savedTranscripts, rClock, rEvent>>
audioVars  == <<audioCache, preGen, cleanups, lateRenders, aClock, aSteps, aEvent>>
waitVars   == <<wTurn, wCount>>
shipVars   == <<orderStatus, orderHistory, tracking, trackingHistory, shClock, shEvent>>
auxVars    == <<audioVars, waitVars, shipVars>>
vars       == <<simpleVars, ivrVars, escVars, engVars, raceVars, auxVars>>

\* a Map whose set stores the value under every key it holds
MapSetShared(m, k, v) == [x \in (DOMAIN m) \cup {k} |-> v]

\* a JS Map as a function on the keys it holds
MapSet(m, k, v) == [x \in (DOMAIN m) \cup {k} |-> IF x = k THEN v ELSE m[x]]
\* Map.clear() in place of Map.delete(key)
MapClear(m, k) == [x \in {} |-> 0]

\* a delete that leaves the entry in place
MapKeep(m, k) == m

MapDelete(m, k) == [x \in (DOMAIN m) \ {k} |-> m[x]]
EmptyMap == [x \in {} |-> 0]

\* an unset numeric property is the empty set, a set one the singleton of its value
Unset == {}
Num(n) == {n}
\* x > n and x >= n, false when x is undefined
GT(x, n) == \E v \in x : v > n
GE(x, n) == \E v \in x : v >= n
\* (x || 0)
OrZero(x) == IF x = {} THEN 0 ELSE CHOOSE v \in x : TRUE

----------------------------------------------------------------------------
(* IVRService (src/services/ivr.js).                                       *)

Departments == {"Sales", "Shipping", "Support", "Accounts", "Operator"}

\* a call state that starts beyond the transfer-attempt ceiling
NewCallStateAfterAttempts(now) ==
  [ callerNumber       |-> "caller",
    startTime          |-> now,
    currentState       |-> "greeting",
    selectedDepartment |-> "null",
    intent             |-> "null",
    transferAttempts   |-> TransferAttemptCeiling + 1,
    conversationTurns  |-> Num(0),
    sentiment          |-> "undefined",
    urgency            |-> "undefined",
    requestedHuman     |-> FALSE,
    failedAttempts     |-> Unset,
    escalationReason   |-> "undefined" ]

\* initializeCall: the state object stored for a call
NewCallState(now) ==
  [ callerNumber       |-> "caller",
    startTime          |-> now,
    currentState       |-> "greeting",
    selectedDepartment |-> "null",
    intent             |-> "null",
    transferAttempts   |-> 0,
    conversationTurns  |-> Num(0),
    sentiment          |-> "undefined",
    urgency            |-> "undefined",
    requestedHuman     |-> FALSE,
    failedAttempts     |-> Unset,
    escalationReason   |-> "undefined" ]

InitializeCall(cs, c, now) == MapSet(cs, c, NewCallState(now))

\* Object.assign(state, updates)
Assign(state, updates) ==
  [f \in DOMAIN state |-> IF f \in DOMAIN updates THEN updates[f] ELSE state[f]]

UpdateCallState(cs, c, updates) ==
  IF c \in DOMAIN cs THEN [cs EXCEPT ![c] = Assign(cs[c], updates)] ELSE cs

HumanKeywords ==
  { <<"human">>, <<"person">>, <<"real", "person">>, <<"agent">>, <<"operator">>,
    <<"representative">>, <<"manager">>, <<"supervisor">>,
    <<"speak", "to", "someone">>, <<"talk", "to", "someone">>,
    <<"transfer", "me">>, <<"transfer", "to">>, <<"transfer">>,
    <<"connect", "me">>, <<"live", "agent">>, <<"real", "agent">>,
    <<"customer", "service">>, <<"speak", "with">>, <<"talk", "with">> }

\* detectsHumanRequest without the toLowerCase() of the input
DetectsHumanRequestCaseSensitive(input) ==
  /\ input # ""
  /\ \E k \in HumanKeywords : Includes(Words(input), k)

\* detectsHumanRequest: null/empty input is no request; lowerInput.includes(keyword)
\* is computed on words
DetectsHumanRequest(input) ==
  /\ input # ""
  /\ \E k \in HumanKeywords : Includes(ToLowerCase(Words(input)), k)

\* LLMService.shouldTransferToHuman: answer is the provider's reply ("YES", "NO")
\* or "error" when the call raises
ShouldTransferToHuman(hist, c, answer) ==
  IF c \notin DOMAIN hist \/ Len(hist[c]) = 0 THEN FALSE
  ELSE answer = "YES"

EscalateWith(cs, c, reason) ==
  [ result |-> "true", callState |-> UpdateCallState(cs, c, [escalationReason |-> reason]) ]

\* shouldEscalate: result is "true", "false" or "throws" (TypeError on an
\* undefined state), with the call-state map after it
ShouldEscalate(cs, hist, c, lastInput, answer) ==
  IF DetectsHumanRequest(lastInput) THEN EscalateWith(cs, c, "customer_requested_human")
  ELSE IF c \notin DOMAIN cs THEN [result |-> "throws", callState |-> cs]
  ELSE LET state == cs[c] IN
    IF state.requestedHuman THEN [result |-> "true", callState |-> cs]
    ELSE IF GT(state.conversationTurns, TurnCeiling)
      THEN EscalateWith(cs, c, "long_conversation")
    ELSE IF state.sentiment = "negative" /\ GT(state.conversationTurns, NegativeTurnCeiling)
      THEN EscalateWith(cs, c, "negative_sentiment")
    ELSE IF state.urgency = "critical" \/ state.urgency = "high"
      THEN EscalateWith(cs, c, "high_urgency")
    ELSE IF GE(state.failedAttempts, FailureCeiling)
      THEN EscalateWith(cs, c, "repeated_failures")
    ELSE IF ShouldTransferToHuman(hist, c, answer)
      THEN EscalateWith(cs, c, "ai_recommended")
    ELSE [result |-> "false", callState |-> cs]

----------------------------------------------------------------------------
(* SpecEscalation: shouldEscalate applied once to inputs drawn from        *)
(* bounded sets.                                                           *)

Counters == {Unset} \cup {Num(n) : n \in 0..MaxCounter}
Failures == {Unset} \cup {Num(n) : n \in 0..(FailureCeiling + 1)}
Sentiments == {"undefined", "neutral", "negative"}
Urgencies == {"undefined", "medium", "high", "critical"}
TransferAnswers == {"YES", "NO", "error"}

EscSessions ==
  { [NewCallState(0) EXCEPT !.conversationTurns = t, !.sentiment = s, !.urgency = u,
                            !.requestedHuman = r, !.failedAttempts = f] :
      t \in Counters, s \in Sentiments, u \in Urgencies, r \in BOOLEAN, f \in Failures }

NoScript == [first |-> "none", text |-> "", blocks |-> << >>, second |-> "none", text2 |-> ""]

NoEvent ==
  [handler |-> "none", callSid |-> "", speech |-> "", script |-> NoScript, existed |-> FALSE]

IdleSimple ==
  /\ callStates = EmptyMap
  /\ callTranscripts = EmptyMap
  /\ sResp = [kind |-> "none", text |-> "", spoken |-> FALSE, department |-> ""]
  /\ sClock = 0
  /\ sCalls = 0
  /\ sEvent = NoEvent

IdleIvr ==
  /\ callLogs = EmptyMap
  /\ iResp = [kind |-> "none", text |-> "", department |-> ""]
  /\ iClock = 0
  /\ iCalls = 0
  /\ iEvent = NoEvent

IdleEscalation ==
  /\ escIn = [callSid |-> "CA1", lastInput |-> "", answer |-> "NO"]
  /\ escOut = "idle"

IdleEngine ==
  /\ engIn = [engine |-> "none"]
  /\ engOut = [done |-> FALSE]

NoStep == [step |-> "none", callSid |-> "", kind |-> "none", ended |-> FALSE,
           restarted |-> FALSE, existed |-> FALSE]

IdleRace ==
  /\ objects = << >>
  /\ liveStates = EmptyMap
  /\ inflight = {}
  /\ savedTranscripts = EmptyMap
  /\ rClock = 0
  /\ rEvent = NoStep

NoAudioEvent ==
  [op |-> "none", text |-> "", key |-> "", voice |-> "", source |-> "none", url |-> FALSE]

IdleAudio ==
  /\ audioCache = EmptyMap
  /\ preGen = [next |-> 1, complete |-> FALSE]
  /\ cleanups = {}
  /\ lateRenders = {}
  /\ aClock = 0
  /\ aSteps = 0
  /\ aEvent = NoAudioEvent

NoTurn == [kind |-> "none", phase |-> "idle", silent |-> {}, reply |-> "none"]

IdleWait ==
  /\ wTurn = NoTurn
  /\ wCount = 0

\* the order the calls in the model are about
KnownOrder == "28630"

NoWebhook == [shipment |-> "none", code |-> 0, order |-> "none"]

IdleShip ==
  /\ orderStatus = [o \in {KnownOrder} |-> 1]
  /\ orderHistory = << >>
  /\ tracking = EmptyMap
  /\ trackingHistory = << >>
  /\ shClock = 0
  /\ shEvent = NoWebhook

IdleAux == IdleAudio /\ IdleWait /\ IdleShip

InitEscalation ==
  /\ IdleSimple
  /\ IdleIvr
  /\ IdleEngine
  /\ IdleRace
  /\ IdleAux
  /\ callState \in {EmptyMap} \cup {MapSet(EmptyMap, "CA1", s) : s \in EscSessions}
  /\ conversationHistory \in
       {EmptyMap,
        MapSet(EmptyMap, "CA1", <<[role |-> "user", kind |-> "text", content |-> U_PLAIN,
                                   blocks |-> << >>]>>)}
  /\ escIn \in [callSid : {"CA1"}, lastInput : Utterances, answer : TransferAnswers]
  /\ escOut = "pending"

EvalShouldEscalate ==
  /\ escOut = "pending"
  /\ LET r == ShouldEscalate(callState, conversationHistory, escIn.callSid,
                             escIn.lastInput, escIn.answer)
     IN /\ escOut' = r.result
        /\ callState' = r.callState
  /\ UNCHANGED <<simpleVars, engVars, raceVars, conversationHistory, callLogs, iResp,
                 iClock, iCalls, iEvent, escIn, auxVars>>

NextEscalation == EvalShouldEscalate

SpecEscalation == InitEscalation /\ [][NextEscalation]_vars



----------------------------------------------------------------------------
(* The language-model provider, as a stub.  A script is what the provider  *)
(* answers in one turn:                                                    *)
(*   first   "error" (the call raises) | "text" | "tool_use"               *)
(*   text    the text of the first answer (with "tool_use": the text that  *)
(*           accompanies the tool request, "" when there is none)          *)
(*   blocks  the tool calls requested by the first answer                  *)
(*   second  the answer to the resubmission: "error" | "text" |            *)
(*           "tool_use" (tools again, no text) | "tool_use_text" (tools    *)
(*           again, with text) | "none" (no resubmission is answered)      *)
(*   text2   the text of the second answer                                 *)

\* entries of a conversation history
UserMsg(t)         == [role |-> "user", kind |-> "text", content |-> t, blocks |-> << >>]
AssistantMsg(t)    == [role |-> "assistant", kind |-> "text", content |-> t, blocks |-> << >>]
ToolUseMsg(t, bs)  == [role |-> "assistant", kind |-> "tool_use", content |-> t, blocks |-> bs]
ToolResultsMsg(rs) == [role |-> "user", kind |-> "tool_result", content |-> "", blocks |-> rs]
ToolMsg(b, result) == [role |-> "tool", kind |-> "tool_result", content |-> result,
                       blocks |-> <<b>>]

\* a tool call of a provider answer; backend is what the data backend does when
\* the tool runs: "found", "not_found", "throws", and "bad_json" for arguments
\* that are not valid JSON
ToolUse(id, name, backend) == [id |-> id, name |-> name, backend |-> backend]

R_ACK == "Let me check that for you right away."

ToolLists ==
  { <<ToolUse("tu_1", "search_products", "found")>>,
    <<ToolUse("tu_1", "track_order", "not_found"),
      ToolUse("tu_2", "search_products", "throws"),
      ToolUse("tu_3", "track_order", "found")>>,
    <<ToolUse("tu_1", "search_products", "found"),
      ToolUse("tu_2", "track_order", "throws")>>,
    <<ToolUse("tu_1", "track_order", "bad_json")>>,
    <<ToolUse("tu_1", "track_order", "not_found")>> }

ErrorScript == [first |-> "error", text |-> "", blocks |-> << >>, second |-> "none", text2 |-> ""]

TextScript(t) == [first |-> "text", text |-> t, blocks |-> << >>, second |-> "none", text2 |-> ""]

ToolScript(ack, bs, k) ==
  [first |-> "tool_use", text |-> ack, blocks |-> bs, second |-> k,
   text2 |-> IF k \in {"text", "tool_use_text"} THEN R_PLAIN ELSE ""]

SecondAnswers == {"error", "text", "tool_use", "tool_use_text"}

Scripts ==
  {ErrorScript} \cup {TextScript(t) : t \in Replies}
  \cup {ToolScript(a, bs, k) : a \in {"", R_ACK}, bs \in ToolLists, k \in SecondAnswers}

\* history.slice(-n)
SliceLast(h, n) == IF Len(h) > n THEN SubSeq(h, Len(h) - n + 1, Len(h)) ELSE h

----------------------------------------------------------------------------
(* getAgentResponse of the multi-agent server (unnamed/part_006).          *)

\* a session object of callStates; hasTranscript is FALSE for the object that
\* getAgentResponse creates itself ({ history: [], agent: 'receptionist' })
Session(agent, history, transcript, hasTranscript, from, startTime) ==
  [agent |-> agent, history |-> history, transcript |-> transcript,
   hasTranscript |-> hasTranscript, from |-> from, startTime |-> startTime]

EngineDefaultState == Session("receptionist", << >>, << >>, FALSE, "undefined", Unset)

\* JSON.parse(toolCall.function.arguments) or a database call raises
\* the tools sent with the provider call, by agent type
OfferedTools(agentType) ==
  IF agentType = "sales" THEN {"search_products"}
  ELSE IF agentType = "shipping" THEN {"track_order"}
  ELSE {}

\* a track_order branch whose look-up raises for an order that does not exist
ToolThrowsWhenMissing(b) ==
  \/ b.backend = "bad_json"
  \/ b.name = "track_order" /\ b.backend \in {"throws", "not_found"}

ToolThrows(b) ==
  \/ b.backend = "bad_json"
  \/ b.name = "track_order" /\ b.backend = "throws"

\* JSON.stringify(toolResult)
ToolContent(b) ==
  IF b.name = "search_products" THEN
    IF b.backend = "found" THEN "products" ELSE "No products found matching that search"
  ELSE IF b.name = "track_order" THEN
    IF b.backend = "found" THEN "order" ELSE "Order not found in our system"
  ELSE "undefined"

\* index of the first tool call that raises, 0 when none does
FirstThrow(bs) ==
  IF \E i \in 1..Len(bs) : ToolThrows(bs[i])
    THEN CHOOSE i \in 1..Len(bs) : ToolThrows(bs[i]) /\ \A j \in 1..(i - 1) : ~ToolThrows(bs[j])
    ELSE 0

\* the tool entries pushed for the first n tool calls
ToolEntries(bs, n) == [i \in 1..n |-> ToolMsg(bs[i], ToolContent(bs[i]))]

\* what the catch block leaves: the pushes made in place on a stored session's
\* history stay, a session object that was never stored is dropped
AfterCatch(cs, c, h, calls) ==
  [ ok |-> FALSE, reply |-> SimpleApology, calls |-> calls,
    store |-> IF c \in DOMAIN cs THEN [cs EXCEPT ![c].history = h] ELSE cs ]

AfterReply(cs, c, state, h, aiMessage, calls) ==
  [ ok |-> TRUE, reply |-> aiMessage, calls |-> calls,
    store |-> MapSet(cs, c,
      [state EXCEPT !.history = SliceLast(Append(h, AssistantMsg(aiMessage)), HistoryWindow)]) ]

\* getAgentResponse with the tool branch as a loop: an answer to the
\* resubmission that requests tools again is resubmitted once more
GetAgentResponseLooping(cs, c, userMessage, script) ==
  LET state == IF c \in DOMAIN cs THEN cs[c] ELSE EngineDefaultState
      h1 == Append(state.history, UserMsg(userMessage))
      bs == script.blocks
      h3 == Append(h1, ToolUseMsg(script.text, bs)) \o ToolEntries(bs, Len(bs))
  IN
  IF script.first = "error" THEN AfterCatch(cs, c, h1, 1)
  ELSE IF script.first = "text" THEN AfterReply(cs, c, state, h1, script.text, 1)
  ELSE IF FirstThrow(bs) > 0 THEN
    AfterCatch(cs, c, Append(h1, ToolUseMsg(script.text, bs))
                        \o ToolEntries(bs, FirstThrow(bs) - 1), 1)
  ELSE IF script.second = "error" THEN AfterCatch(cs, c, h3, 2)
  ELSE IF script.second = "text" THEN AfterReply(cs, c, state, h3, script.text2, 2)
  ELSE AfterReply(cs, c, state, h3 \o ToolEntries(bs, Len(bs)), R_PLAIN, 3)

GetAgentResponse(cs, c, userMessage, script) ==
  LET state == IF c \in DOMAIN cs THEN cs[c] ELSE EngineDefaultState
      h1 == Append(state.history, UserMsg(userMessage))
      bs == script.blocks
      t  == FirstThrow(bs)
      h2 == Append(h1, ToolUseMsg(script.text, bs))
  IN
  IF script.first = "error" THEN AfterCatch(cs, c, h1, 1)
  ELSE IF script.first = "text" THEN AfterReply(cs, c, state, h1, script.text, 1)
  ELSE IF t > 0 THEN AfterCatch(cs, c, h2 \o ToolEntries(bs, t - 1), 1)
  ELSE LET h3 == h2 \o ToolEntries(bs, Len(bs)) IN
    \* "error": the call raises; "tool_use": message.content is null and
    \* aiMessage.substring raises
    IF script.second \in {"error", "tool_use"} THEN AfterCatch(cs, c, h3, 2)
    ELSE AfterReply(cs, c, state, h3, script.text2, 2)

----------------------------------------------------------------------------
(* getAgentResponse of the sibling server (src/index.js).                  *)

AnthropicApology == "I apologize, I need to transfer you to a specialist."
ForcedAcknowledgment == "Let me check that for you - give me just a moment..."

\* textBlocks.some(b => b.text.length > 10)
HasAcknowledgment(script) == script.text = R_ACK

\* the tool_result block built for one tool_use block
SiblingToolResult(b) ==
  [tool_use_id |-> b.id,
   content |-> IF b.name = "search_products"
                 THEN (IF b.backend = "found" THEN "products"
                       ELSE "No products found matching that search")
                 ELSE "undefined"]

SiblingCatch(cs, c, h, calls) ==
  [ ok |-> FALSE, reply |-> AnthropicApology, calls |-> calls,
    store |-> IF c \in DOMAIN cs THEN [cs EXCEPT ![c].history = h] ELSE cs ]

\* text blocks of the answer, joined
JoinedText(script) ==
  IF script.second \in {"text", "tool_use_text"} THEN script.text2 ELSE ""

SiblingGetAgentResponse(cs, c, userMessage, script) ==
  LET state == IF c \in DOMAIN cs THEN cs[c] ELSE EngineDefaultState
      h1 == Append(state.history, UserMsg(userMessage))
      bs == script.blocks
      h3 == Append(Append(h1, ToolUseMsg(script.text, bs)),
                   ToolResultsMsg([i \in 1..Len(bs) |-> SiblingToolResult(bs[i])]))
  IN
  IF script.first = "error" THEN SiblingCatch(cs, c, h1, 1)
  ELSE IF script.first = "text" THEN AfterReply(cs, c, state, h1, script.text, 1)
  ELSE IF ~HasAcknowledgment(script) THEN
    \* return "Let me check that for you ..." without running the tool
    [ ok |-> TRUE, reply |-> ForcedAcknowledgment, calls |-> 1,
      store |-> IF c \in DOMAIN cs THEN [cs EXCEPT ![c].history = h1] ELSE cs ]
  ELSE IF script.second = "error" THEN SiblingCatch(cs, c, h3, 2)
  ELSE AfterReply(cs, c, state, h3, JoinedText(script), 2)

----------------------------------------------------------------------------
(* LLMService.generateResponseWithTools (unnamed/part_008).                *)

IvrToolNames ==
  {"get_product_info", "check_product_availability", "get_product_recommendations",
   "track_order", "find_orders_by_email"}

\* executeTool: the content of the tool result; every failure is caught and
\* returned as text
ExecuteTool(block) ==
  IF block.name \notin IvrToolNames THEN "Unknown tool"
  ELSE IF block.backend \in {"throws", "bad_json"} THEN "Error executing tool"
  ELSE IF block.backend = "not_found" THEN "not found"
  ELSE "info"

ToolResult(block) == [tool_use_id |-> block.id, content |-> ExecuteTool(block)]

\* finalResponse.content.find(c => c.type === 'text')?.text || fallback
FinalText(script) ==
  IF script.second \in {"text", "tool_use_text"} /\ script.text2 # "" THEN script.text2
  ELSE ToolFallback

\* generateResponseWithTools: ok is FALSE when it rethrows; store is
\* conversationHistory after it, calls the provider calls it made
GenerateResponseWithTools(hist, c, userMessage, script) ==
  LET h0 == IF c \in DOMAIN hist THEN hist[c] ELSE << >>
      h1 == Append(h0, UserMsg(userMessage))
      bs == script.blocks
      h3 == Append(Append(h1, ToolUseMsg(script.text, bs)),
                   ToolResultsMsg([i \in 1..Len(bs) |-> ToolResult(bs[i])]))
  IN
  IF script.first = "error" THEN
    [ok |-> FALSE, reply |-> "", calls |-> 1, store |-> MapSet(hist, c, h1)]
  ELSE IF script.first = "text" THEN
    [ok |-> TRUE, reply |-> script.text, calls |-> 1,
     store |-> MapSet(hist, c, Append(h1, AssistantMsg(script.text)))]
  ELSE IF script.second = "error" THEN
    [ok |-> FALSE, reply |-> "", calls |-> 2, store |-> MapSet(hist, c, h3)]
  ELSE
    [ok |-> TRUE, reply |-> FinalText(script), calls |-> 2,
     store |-> MapSet(hist, c, Append(h3, AssistantMsg(FinalText(script))))]

----------------------------------------------------------------------------
(* SpecEngine: each dialogue engine applied once to a turn whose session   *)
(* and provider answers are drawn from bounded sets.                       *)

Engines == {"getAgentResponse", "siblingGetAgentResponse", "generateResponseWithTools"}

\* a history of n earlier plain exchanges
RECURSIVE PriorHistory(_)
PriorHistory(n) ==
  IF n = 0 THEN << >>
  ELSE PriorHistory(n - 1) \o <<UserMsg(U_PLAIN), AssistantMsg(R_PLAIN)>>

\* longest prior history drawn, in exchanges
MaxPriorExchanges == 5

EngineStores(engine) ==
  {EmptyMap} \cup
  { MapSet(EmptyMap, "CA1",
      IF engine = "generateResponseWithTools" THEN PriorHistory(n)
      ELSE Session(a, PriorHistory(n), << >>, TRUE, "caller", Num(0))) :
    n \in 0..MaxPriorExchanges, a \in {"receptionist", "sales"} }

EngineInputs ==
  UNION { { [engine |-> e, store |-> st, userMessage |-> u, script |-> s] :
              st \in EngineStores(e), u \in {U_PLAIN, U_TRACK}, s \in Scripts } :
          e \in Engines }

ApplyEngine(in) ==
  IF in.engine = "getAgentResponse"
    THEN GetAgentResponse(in.store, "CA1", in.userMessage, in.script)
  ELSE IF in.engine = "siblingGetAgentResponse"
    THEN SiblingGetAgentResponse(in.store, "CA1", in.userMessage, in.script)
  ELSE GenerateResponseWithTools(in.store, "CA1", in.userMessage, in.script)

InitEngine ==
  /\ IdleSimple
  /\ IdleIvr
  /\ IdleRace
  /\ IdleAux
  /\ callState = EmptyMap
  /\ conversationHistory = EmptyMap
  /\ IdleEscalation
  /\ engIn \in EngineInputs
  /\ engOut = [done |-> FALSE]

RunEngine ==
  /\ ~engOut.done
  /\ LET r == ApplyEngine(engIn) IN
       engOut' = [done |-> TRUE, ok |-> r.ok, reply |-> r.reply, calls |-> r.calls,
                  store |-> r.store]
  /\ UNCHANGED <<simpleVars, ivrVars, escVars, raceVars, engIn, auxVars>>

NextEngine == RunEngine

SpecEngine == InitEngine /\ [][NextEngine]_vars

----------------------------------------------------------------------------
(* IVRService routing, TelephonyService responses.                         *)

\* analyzeIntent: the provider's JSON answer, or the default on any error
DefaultAnalysis == [intent |-> "general_inquiry", urgency |-> "medium", sentiment |-> "neutral"]
Analyses ==
  { DefaultAnalysis,
    [intent |-> "sales", urgency |-> "medium", sentiment |-> "neutral"],
    [intent |-> "shipping", urgency |-> "high", sentiment |-> "negative"] }

\* IVRService.analyzeIntent: departmentMapping[analysis.intent] || 'Operator'
DepartmentOfIntent(intent) ==
  CASE intent = "sales" -> "Sales"
    [] intent = "shipping" -> "Shipping"
    [] intent = "support" -> "Support"
    [] intent = "accounts" -> "Accounts"
    [] OTHER -> "Operator"

\* config.agents.*: process.env.AGENT_*_NUMBER || null, in a deployment that sets
\* AGENT_SALES_NUMBER only
SalesAgentNumber == "+27110000001"

AgentNumbers == [d \in Departments |-> IF d = "Sales" THEN SalesAgentNumber ELSE "null"]

\* getAgentNumber: departmentMap[department] || config.agents.operator
GetAgentNumber(department) ==
  IF department \in Departments /\ AgentNumbers[department] # "null"
    THEN AgentNumbers[department]
    ELSE AgentNumbers["Operator"]

\* canAIHandle: "throws" when the call has no state
CanAIHandle(cs, c) ==
  IF c \notin DOMAIN cs THEN "throws"
  ELSE IF cs[c].transferAttempts > TransferAttemptCeiling THEN "false"
  ELSE "true"

\* determineRouting: "throws" on an undefined state, or on department.toLowerCase()
\* of a null department
DetermineRouting(cs, c, department) ==
  IF CanAIHandle(cs, c) = "throws" \/ department = "null" THEN
    [routeType |-> "throws", department |-> department, agentNumber |-> "undefined"]
  ELSE IF CanAIHandle(cs, c) = "true" THEN
    [routeType |-> "ai", department |-> department, agentNumber |-> "undefined"]
  ELSE
    [routeType |-> "human", department |-> department,
     agentNumber |-> GetAgentNumber(department)]

\* TelephonyService.createTransferResponse
CreateTransferResponse(agentNumber, department) ==
  IF agentNumber \in {"undefined", "null", ""} THEN
    [kind |-> "voicemail", text |-> "", department |-> department]
  ELSE
    [kind |-> "dial", text |-> agentNumber, department |-> department]

\* TelephonyService.createSpeechResponse(text, null, nextAction)
CreateSpeechResponse(text) == [kind |-> "say", text |-> text, department |-> ""]

Http500(message) == [kind |-> "error500", text |-> message, department |-> ""]


----------------------------------------------------------------------------
(* IVR router (unnamed/part_003).  One action per webhook; every handler   *)
(* runs to its response.                                                   *)

IvrUtterances == {U_EMPTY, U_HUMAN, U_PLAIN}

\* the provider answers drawn for a turn of the IVR router
IvrScripts ==
  { ErrorScript, TextScript(R_PLAIN),
    ToolScript("", <<ToolUse("tu_1", "track_order", "not_found")>>, "text"),
    ToolScript(R_ACK, <<ToolUse("tu_1", "track_order", "found")>>, "tool_use") }

\* generateHandoffSummary / crmService.logCall: the entry stored for the call
LogEntry(cs, c, resolved) ==
  [ department |-> cs[c].selectedDepartment,
    conversationTurns |-> cs[c].conversationTurns,
    resolved |-> resolved ]

\* normalizeSelection: the digit a DTMF or spoken selection stands for
NormalizeSelection(selection) ==
  LET ws == ToLowerCase(Words(selection)) IN
  IF selection \in {"0", "1", "2", "3", "4", "5", "6", "7", "8", "9"} THEN selection
  ELSE IF Includes(ws, <<"sales">>) \/ Includes(ws, <<"one">>) THEN "1"
  ELSE IF Includes(ws, <<"shipping">>) \/ Includes(ws, <<"two">>)
          \/ Includes(ws, <<"track">>) THEN "2"
  ELSE IF Includes(ws, <<"support">>) \/ Includes(ws, <<"three">>)
          \/ Includes(ws, <<"technical">>) THEN "3"
  ELSE IF Includes(ws, <<"accounts">>) \/ Includes(ws, <<"four">>)
          \/ Includes(ws, <<"billing">>) THEN "4"
  ELSE IF Includes(ws, <<"operator">>) \/ Includes(ws, <<"zero">>)
          \/ Includes(ws, <<"human">>) THEN "0"
  ELSE "null"

\* config.ivr.options[digit].name, "undefined" for a digit that is no option
MenuOption(digit) ==
  CASE digit = "1" -> "Sales"
    [] digit = "2" -> "Shipping"
    [] digit = "3" -> "Support"
    [] digit = "4" -> "Accounts"
    [] digit = "0" -> "Operator"
    [] OTHER -> "undefined"

Selections == {"1", "2", "9", U_TRACK}

\* POST /voice/incoming
IvrIncoming(c) ==
  /\ iClock < MaxIvrEvents
  /\ callState' = InitializeCall(callState, c, iClock)
  /\ iResp' = [kind |-> "greeting", text |-> "", department |-> ""]
  /\ iClock' = iClock + 1
  /\ iCalls' = 0
  /\ iEvent' = [handler |-> "incoming", callSid |-> c, speech |-> "", script |-> NoScript,
                existed |-> c \in DOMAIN callState]
  /\ UNCHANGED <<conversationHistory, callLogs, simpleVars, escVars, engVars, raceVars, auxVars>>

\* POST /voice/process-input
IvrProcessInput(c, speech, analysis, script) ==
  /\ iClock < MaxIvrEvents
  /\ iClock' = iClock + 1
  /\ iEvent' = [handler |-> "process-input", callSid |-> c, speech |-> speech, script |-> script,
                existed |-> c \in DOMAIN callState]
  /\ UNCHANGED <<callLogs, simpleVars, escVars, engVars, raceVars, auxVars>>
  /\ IF speech = "" THEN
       /\ iResp' = [kind |-> "menu", text |-> "", department |-> ""]
       /\ iCalls' = 0
       /\ UNCHANGED <<callState, conversationHistory>>
     ELSE
       LET cs1 == UpdateCallState(callState, c,
                    [intent |-> analysis.intent, sentiment |-> analysis.sentiment,
                     urgency |-> analysis.urgency])
           department == DepartmentOfIntent(analysis.intent)
           routing == DetermineRouting(cs1, c, department)
           r == GenerateResponseWithTools(conversationHistory, c, speech, script)
       IN
       IF routing.routeType = "throws" THEN
         /\ iResp' = Http500("Error processing input")
         /\ callState' = cs1
         /\ iCalls' = 0
         /\ UNCHANGED conversationHistory
       ELSE IF routing.routeType = "human" THEN
         /\ iResp' = CreateTransferResponse(routing.agentNumber, routing.department)
         /\ callState' = cs1
         /\ iCalls' = 0
         /\ UNCHANGED conversationHistory
       ELSE
         /\ conversationHistory' = r.store
         /\ iCalls' = r.calls
         /\ IF ~r.ok THEN
              /\ iResp' = Http500("Error processing input")
              /\ callState' = cs1
            ELSE
              /\ iResp' = CreateSpeechResponse(r.reply)
              /\ callState' = UpdateCallState(cs1, c,
                   [conversationTurns |-> Num(OrZero(cs1[c].conversationTurns) + 1)])

\* POST /voice/ivr-selection
IvrSelection(c, selection) ==
  /\ iClock < MaxIvrEvents
  /\ iClock' = iClock + 1
  /\ iEvent' = [handler |-> "ivr-selection", callSid |-> c, speech |-> selection, script |-> NoScript,
                existed |-> c \in DOMAIN callState]
  /\ iCalls' = 0
  /\ UNCHANGED <<conversationHistory, callLogs, simpleVars, escVars, engVars, raceVars, auxVars>>
  /\ LET option == MenuOption(NormalizeSelection(selection))
         cs1 == UpdateCallState(callState, c,
                  [selectedDepartment |-> option, currentState |-> "department_selected"])
         routing == DetermineRouting(cs1, c, option)
     IN
     IF option = "undefined" THEN
       /\ iResp' = [kind |-> "menu", text |-> "", department |-> ""]
       /\ UNCHANGED callState
     ELSE
       /\ callState' = cs1
       /\ iResp' = IF routing.routeType = "throws" THEN Http500("Error processing selection")
                   ELSE IF routing.routeType = "human"
                     THEN CreateTransferResponse(routing.agentNumber, routing.department)
                   ELSE [kind |-> "say", text |-> "", department |-> routing.department]

\* POST /voice/conversation
IvrConversation(c, speech, answer, script) ==
  /\ iClock < MaxIvrEvents
  /\ iClock' = iClock + 1
  /\ iEvent' = [handler |-> "conversation", callSid |-> c, speech |-> speech, script |-> script,
                existed |-> c \in DOMAIN callState]
  /\ UNCHANGED <<simpleVars, escVars, engVars, raceVars, auxVars>>
  /\ IF speech = "" THEN
       /\ iResp' = CreateSpeechResponse(Reprompt)
       /\ iCalls' = 0
       /\ UNCHANGED <<callState, conversationHistory, callLogs>>
     ELSE
       LET esc == ShouldEscalate(callState, conversationHistory, c, speech, answer)
           cs1 == esc.callState
           r == GenerateResponseWithTools(conversationHistory, c, speech, script)
       IN
       IF esc.result = "throws" THEN
         /\ iResp' = Http500("Error processing conversation")
         /\ iCalls' = 0
         /\ UNCHANGED <<callState, conversationHistory, callLogs>>
       ELSE IF esc.result = "true" THEN
         /\ iCalls' = 0
         /\ UNCHANGED conversationHistory
         /\ callState' = cs1
         /\ IF c \notin DOMAIN cs1 THEN
              \* generateHandoffSummary reads state.callerNumber of an undefined state
              /\ iResp' = Http500("Error processing conversation")
              /\ UNCHANGED callLogs
            ELSE
              /\ callLogs' = MapSet(callLogs, c, LogEntry(cs1, c, FALSE))
              /\ iResp' =
                   LET routing == DetermineRouting(cs1, c, cs1[c].selectedDepartment) IN
                   IF routing.routeType = "throws"
                     THEN Http500("Error processing conversation")
                     ELSE CreateTransferResponse(routing.agentNumber,
                                                 cs1[c].selectedDepartment)
       ELSE
         /\ conversationHistory' = r.store
         /\ iCalls' = r.calls
         /\ UNCHANGED callLogs
         /\ IF ~r.ok THEN
              /\ iResp' = Http500("Error processing conversation")
              /\ callState' = cs1
            ELSE
              /\ iResp' = CreateSpeechResponse(r.reply)
              /\ callState' = UpdateCallState(cs1, c,
                   [conversationTurns |-> Num(OrZero(cs1[c].conversationTurns) + 1)])

\* POST /voice/status
IvrStatus(c, callStatus) ==
  /\ iClock < MaxIvrEvents
  /\ iClock' = iClock + 1
  /\ iEvent' = [handler |-> "status", callSid |-> c, speech |-> callStatus, script |-> NoScript,
                existed |-> c \in DOMAIN callState]
  /\ iCalls' = 0
  /\ iResp' = [kind |-> "ok", text |-> "", department |-> ""]
  /\ UNCHANGED <<simpleVars, escVars, engVars, raceVars, auxVars>>
  /\ IF callStatus = "completed" THEN
       /\ callLogs' = IF c \in DOMAIN callState
                        THEN MapSet(callLogs, c, LogEntry(callState, c, TRUE))
                        ELSE callLogs
       \* cleanupCall
       /\ callState' = MapDelete(callState, c)
       /\ conversationHistory' = MapDelete(conversationHistory, c)
     ELSE UNCHANGED <<callState, conversationHistory, callLogs>>

InitIVR ==
  /\ IdleSimple
  /\ IdleIvr
  /\ IdleEscalation
  /\ IdleEngine
  /\ IdleRace
  /\ IdleAux
  /\ callState = EmptyMap
  /\ conversationHistory = EmptyMap

NextIVR ==
  \E c \in CallIds :
    \/ IvrIncoming(c)
    \/ \E u \in IvrUtterances, a \in Analyses, s \in IvrScripts : IvrProcessInput(c, u, a, s)
    \/ \E sel \in Selections : IvrSelection(c, sel)
    \/ \E u \in IvrUtterances, t \in TransferAnswers, s \in IvrScripts :
         IvrConversation(c, u, t, s)
    \/ \E st \in {"completed", "in-progress"} : IvrStatus(c, st)

SpecIVR == InitIVR /\ [][NextIVR]_vars

----------------------------------------------------------------------------
(* SpecTurns: the utterance handlers of the IVR router on a call that has  *)
(* already had a number of answered turns around the turn ceiling.         *)

\* the session and history left by /incoming followed by n answered turns
SessionAfterTurns(n) == [NewCallState(0) EXCEPT !.conversationTurns = Num(n)]

TurnsSoFar == (TurnCeiling - 1)..MaxCounter

\* webhooks delivered after those turns
MaxTurnEvents == 2

InitTurns ==
  /\ IdleSimple
  /\ callLogs = EmptyMap
  /\ iResp = [kind |-> "none", text |-> "", department |-> ""]
  /\ iClock = MaxIvrEvents - MaxTurnEvents
  /\ iCalls = 0
  /\ iEvent = NoEvent
  /\ IdleEscalation
  /\ IdleEngine
  /\ IdleRace
  /\ IdleAux
  /\ \E n \in TurnsSoFar :
       /\ callState = MapSet(EmptyMap, "CA1", SessionAfterTurns(n))
       /\ conversationHistory = MapSet(EmptyMap, "CA1", PriorHistory(n))

NextTurns ==
  \E c \in CallIds :
    \/ \E u \in IvrUtterances, a \in Analyses, s \in IvrScripts : IvrProcessInput(c, u, a, s)
    \/ \E u \in IvrUtterances, t \in TransferAnswers, s \in IvrScripts :
         IvrConversation(c, u, t, s)

SpecTurns == InitTurns /\ [][NextTurns]_vars


----------------------------------------------------------------------------
(* Multi-agent server (unnamed/part_006): the webhooks.                    *)

SpecialistAgents == {"sales", "shipping", "support", "accounts"}

SimpleUtterances == {U_EMPTY, U_BYE, U_TRACK}

ThreeTools ==
  <<ToolUse("tu_1", "track_order", "not_found"),
    ToolUse("tu_2", "search_products", "throws"),
    ToolUse("tu_3", "track_order", "found")>>

\* the provider answers drawn for a turn of the multi-agent server
SimpleScripts ==
  { ErrorScript, TextScript(R_PLAIN), TextScript(R_SALES), TextScript(R_SHIP),
    ToolScript("", ThreeTools, "text"),
    ToolScript("", ThreeTools, "error"),
    ToolScript("", ThreeTools, "tool_use_text"),
    ToolScript("", <<ToolUse("tu_1", "search_products", "found"),
                     ToolUse("tu_2", "track_order", "throws")>>, "text") }

\* aiResponse.match(/connect you to our (sales|shipping|support|accounts) team/i),
\* then routingMatch[1].toLowerCase(); "none" when there is no match
RoutingMatch(aiResponse) ==
  LET ws == ToLowerCase(Words(aiResponse))
      hits == {d \in SpecialistAgents :
                 Includes(ws, <<"connect", "you", "to", "our", d, "team">>)}
  IN IF hits = {} THEN "none" ELSE CHOOSE d \in hits : TRUE

\* /goodbye|bye|thank you|thanks/i.test(speechResult)
IsGoodbye(speechResult) ==
  LET ws == ToLowerCase(Words(speechResult)) IN
  \E k \in {<<"goodbye">>, <<"bye">>, <<"thank", "you">>, <<"thanks">>} : Includes(ws, k)

TranscriptEntry(now, speaker, text) == [timestamp |-> now, speaker |-> speaker, text |-> text]

\* if (state.transcript) state.transcript.push(...)
LogTranscript(state, now, speaker, text) ==
  IF state.hasTranscript
    THEN [state EXCEPT !.transcript = Append(@, TranscriptEntry(now, speaker, text))]
    ELSE state

\* the hand-off without state.history = []
RouteToKeepingHistory(state, department) == [state EXCEPT !.agent = department]

\* state.agent = department; state.history = []
RouteTo(state, department) == [state EXCEPT !.agent = department, !.history = << >>]

\* createTwiML: <Play> of the audio file, or <Say> of the message without one
CreateTwiML(message, audioFile) ==
  [kind |-> "gather", text |-> message, spoken |-> TRUE, department |-> ""]

\* POST /voice/incoming
Incoming(c, tts) ==
  /\ sClock < MaxEvents
  /\ sClock' = sClock + 1
  /\ sCalls' = 0
  /\ sEvent' = [handler |-> "incoming", callSid |-> c, speech |-> "", script |-> NoScript,
                existed |-> c \in DOMAIN callStates]
  /\ callStates' = MapSet(callStates, c,
       LogTranscript(Session("receptionist", << >>, << >>, TRUE, "caller", Num(sClock)),
                     sClock, "AI-receptionist", Greeting))
  /\ sResp' = CreateTwiML(Greeting, tts)
  /\ UNCHANGED <<callTranscripts, ivrVars, escVars, engVars, raceVars, auxVars>>

\* a handler that takes every utterance as speech
SpeechAlways(speechResult) == FALSE

\* if (!speechResult)
NoSpeech(speechResult) == speechResult = ""

\* POST /voice/conversation
Conversation(c, speechResult, script, tts) ==
  /\ sClock < MaxEvents
  /\ sClock' = sClock + 1
  /\ sEvent' = [handler |-> "conversation", callSid |-> c, speech |-> speechResult, script |-> script,
                existed |-> c \in DOMAIN callStates]
  /\ UNCHANGED <<callTranscripts, ivrVars, escVars, engVars, raceVars, auxVars>>
  /\ IF NoSpeech(speechResult) THEN
       /\ sResp' = CreateTwiML(Reprompt, FALSE)
       /\ sCalls' = 0
       /\ UNCHANGED callStates
     ELSE
       LET existed == c \in DOMAIN callStates
           \* the handler's state object: the stored one, or a fresh one
           state0 == IF existed THEN callStates[c]
                     ELSE Session("receptionist", << >>, << >>, TRUE, "undefined", Unset)
           state1 == LogTranscript(state0, sClock, "Customer", speechResult)
           cs1    == IF existed THEN [callStates EXCEPT ![c] = state1] ELSE callStates
           r      == GetAgentResponse(cs1, c, speechResult, script)
           \* the handler's object after getAgentResponse: the engine worked on
           \* the same object when it was stored, on its own object otherwise
           state2 == IF existed THEN r.store[c] ELSE state1
           state3 == LogTranscript(state2, sClock, "AI-" \o state2.agent, r.reply)
           cs3    == IF existed THEN [r.store EXCEPT ![c] = state3] ELSE r.store
           department == RoutingMatch(r.reply)
       IN
       /\ sCalls' = r.calls
       /\ IF department # "none" /\ state3.agent = "receptionist" THEN
            /\ callStates' = MapSet(cs3, c, RouteTo(state3, department))
            /\ sResp' = [kind |-> "route", text |-> r.reply, spoken |-> tts,
                         department |-> department]
          ELSE IF IsGoodbye(speechResult) THEN
            /\ callStates' = MapDelete(cs3, c)
            /\ sResp' = [kind |-> "hangup", text |-> r.reply, spoken |-> tts,
                         department |-> ""]
          ELSE
            /\ callStates' = cs3
            /\ sResp' = CreateTwiML(r.reply, tts)

\* POST /voice/status; fsOk is whether fs.writeFile succeeds
Status(c, callStatus, fsOk) ==
  /\ sClock < MaxEvents
  /\ sClock' = sClock + 1
  /\ sCalls' = 0
  /\ sEvent' = [handler |-> "status", callSid |-> c, speech |-> callStatus, script |-> NoScript,
                existed |-> c \in DOMAIN callStates]
  /\ UNCHANGED <<ivrVars, escVars, engVars, raceVars, auxVars>>
  /\ LET saves == /\ callStatus = "completed"
                  /\ c \in DOMAIN callStates
                  /\ callStates[c].hasTranscript
                  /\ Len(callStates[c].transcript) > 0
     IN
     IF saves /\ ~fsOk THEN
       \* the rejection of fs.writeFile leaves the async handler: no response
       /\ sResp' = [kind |-> "unhandled", text |-> "", spoken |-> FALSE, department |-> ""]
       /\ UNCHANGED <<callStates, callTranscripts>>
     ELSE
       /\ sResp' = [kind |-> "ok", text |-> "OK", spoken |-> FALSE, department |-> ""]
       /\ callTranscripts' =
            IF saves THEN MapSet(callTranscripts, c,
                            [from |-> callStates[c].from, startTime |-> callStates[c].startTime,
                             agent |-> callStates[c].agent,
                             transcript |-> callStates[c].transcript])
            ELSE callTranscripts
       /\ callStates' = IF callStatus = "completed" THEN MapDelete(callStates, c)
                        ELSE callStates

Init ==
  /\ IdleSimple
  /\ IdleIvr
  /\ IdleEscalation
  /\ IdleEngine
  /\ IdleRace
  /\ IdleAux
  /\ callState = EmptyMap
  /\ conversationHistory = EmptyMap

Next ==
  \E c \in CallIds :
    \/ \E tts \in BOOLEAN : Incoming(c, tts)
    \/ \E u \in SimpleUtterances, s \in SimpleScripts, tts \in BOOLEAN :
         Conversation(c, u, s, tts)
    \/ \E st \in {"completed", "in-progress"}, fsOk \in BOOLEAN : Status(c, st, fsOk)

Spec == Init /\ [][Next]_vars


----------------------------------------------------------------------------
(* SpecPair: the webhooks of the multi-agent server for two calls.         *)

PairIds == {"CA1", "CA2"}

PairUtterances == {U_TRACK, U_BYE}

PairScripts == {ErrorScript, TextScript(R_PLAIN), TextScript(R_SALES)}

NextPair ==
  \E c \in PairIds :
    \/ Incoming(c, TRUE)
    \/ \E u \in PairUtterances, s \in PairScripts : Conversation(c, u, s, TRUE)
    \/ \E st \in {"completed", "in-progress"}, fsOk \in BOOLEAN : Status(c, st, fsOk)

SpecPair == Init /\ [][NextPair]_vars

----------------------------------------------------------------------------
(* SpecRace: the multi-agent server (unnamed/part_006) with /voice/incoming *)
(* and /voice/conversation split at their awaits, so that webhooks of the  *)
(* same call interleave.  A session object is known by its identity: a     *)
(* suspended handler keeps the object it fetched, whatever callStates      *)
(* holds by the time it resumes.  /voice/status is taken in one step.      *)

\* webhooks received in one behaviour of SpecRace
MaxRaceEvents == 3

RaceUtterances == {U_TRACK, U_BYE}

RaceScripts ==
  { ErrorScript, TextScript(R_PLAIN), TextScript(R_SALES),
    ToolScript("", <<ToolUse("tu_1", "track_order", "found")>>, "text") }

\* what getAgentResponse does after the push of the user message: ok, reply,
\* provider calls, and the entries it pushes onto the history
TurnPushes(userMessage, script) ==
  LET r == GetAgentResponse(MapSet(EmptyMap, "CA1", EngineDefaultState), "CA1",
                            userMessage, script)
  IN [ok |-> r.ok, reply |-> r.reply, calls |-> r.calls,
      pushes |-> Tail(r.store["CA1"].history)]

Handler(id, handler, c, phase, state, estate, speech, script, reply, branch) ==
  [id |-> id, handler |-> handler, callSid |-> c, phase |-> phase, state |-> state,
   estate |-> estate, speech |-> speech, script |-> script, reply |-> reply,
   branch |-> branch, ended |-> FALSE, restarted |-> FALSE]

Step(step, c, kind, t, existed) ==
  [step |-> step, callSid |-> c, kind |-> kind, ended |-> t.ended,
   restarted |-> t.restarted, existed |-> existed]

NoHandler == [ended |-> FALSE, restarted |-> FALSE]

\* the suspended handlers of call c learn that c ended / was started again
MarkEnded(ts, c) ==
  {IF t.callSid = c THEN [t EXCEPT !.ended = TRUE] ELSE t : t \in ts}
MarkRestarted(ts, c) ==
  {IF t.callSid = c /\ t.ended THEN [t EXCEPT !.restarted = TRUE] ELSE t : t \in ts}

\* POST /voice/incoming up to await generateSpeech
RaceIncomingBegin(c) ==
  /\ rClock < MaxRaceEvents
  /\ rClock' = rClock + 1
  /\ objects' = Append(objects, Session("receptionist", << >>, << >>, TRUE, "caller",
                                        Num(rClock)))
  /\ liveStates' = MapSet(liveStates, c, Len(objects) + 1)
  /\ inflight' = MarkRestarted(inflight, c) \cup
       {Handler(rClock, "incoming", c, "speech", 0, 0, "", NoScript, Greeting, "plain")}
  /\ rEvent' = Step("incoming-begin", c, "none", NoHandler, c \in DOMAIN liveStates)
  /\ UNCHANGED <<savedTranscripts, simpleVars, ivrVars, escVars, engVars, auxVars>>

\* POST /voice/incoming after the await: callStates.get(callSid).transcript.push
RaceIncomingFinish(t) ==
  /\ t.handler = "incoming"
  /\ inflight' = inflight \ {t}
  /\ IF t.callSid \in DOMAIN liveStates THEN
       /\ objects' = [objects EXCEPT ![liveStates[t.callSid]] =
                        LogTranscript(@, t.id, "AI-receptionist", Greeting)]
       /\ rEvent' = Step("incoming-finish", t.callSid, "gather", t, TRUE)
     ELSE
       \* TypeError on the undefined state: the handler ends without a response
       /\ UNCHANGED objects
       /\ rEvent' = Step("incoming-finish", t.callSid, "unhandled", t, FALSE)
  /\ UNCHANGED <<liveStates, savedTranscripts, rClock, simpleVars, ivrVars, escVars, engVars, auxVars>>

\* POST /voice/conversation up to the await of the first provider call
RaceConversationBegin(c, speechResult, script) ==
  /\ rClock < MaxRaceEvents
  /\ rClock' = rClock + 1
  /\ UNCHANGED <<liveStates, savedTranscripts, simpleVars, ivrVars, escVars, engVars, auxVars>>
  /\ LET existed == c \in DOMAIN liveStates
         \* state (the handler's object) and the engine's object: the stored one,
         \* or two fresh ones
         state  == IF existed THEN liveStates[c] ELSE Len(objects) + 1
         estate == IF existed THEN liveStates[c] ELSE Len(objects) + 2
         heap0  == IF existed THEN objects
                   ELSE objects \o
                        <<Session("receptionist", << >>, << >>, TRUE, "undefined", Unset),
                          EngineDefaultState>>
         heap1  == [heap0 EXCEPT ![state] = LogTranscript(@, rClock, "Customer", speechResult)]
     IN
     /\ objects' = [heap1 EXCEPT ![estate].history = Append(@, UserMsg(speechResult))]
     /\ inflight' = inflight \cup
          {Handler(rClock, "conversation", c, "provider", state, estate, speechResult,
                   script, "", "plain")}
     /\ rEvent' = Step("conversation-begin", c, "none", NoHandler, existed)

\* getAgentResponse resumes with the provider's answers and returns; the
\* handler runs on to its await of generateSpeech
RaceConversationProvider(t) ==
  /\ t.handler = "conversation" /\ t.phase = "provider"
  /\ UNCHANGED <<savedTranscripts, rClock, simpleVars, ivrVars, escVars, engVars, auxVars>>
  /\ LET r == TurnPushes(t.speech, t.script)
         c == t.callSid
         h == objects[t.estate].history \o r.pushes
         heap1 == [objects EXCEPT ![t.estate].history =
                     IF r.ok THEN SliceLast(h, HistoryWindow) ELSE h]
         \* callStates.set(callSid, state) of getAgentResponse
         live1 == IF r.ok THEN MapSet(liveStates, c, t.estate) ELSE liveStates
         heap2 == [heap1 EXCEPT ![t.state] =
                     LogTranscript(@, t.id, "AI-" \o heap1[t.state].agent, r.reply)]
         department == RoutingMatch(r.reply)
         routes == department # "none" /\ heap2[t.state].agent = "receptionist"
         branch == IF routes THEN "route"
                   ELSE IF IsGoodbye(t.speech) THEN "goodbye" ELSE "plain"
     IN
     /\ objects' = IF routes THEN [heap2 EXCEPT ![t.state] = RouteTo(@, department)]
                   ELSE heap2
     /\ liveStates' = IF routes THEN MapSet(live1, c, t.state) ELSE live1
     /\ inflight' = (inflight \ {t}) \cup
          {[t EXCEPT !.phase = "speech", !.reply = r.reply, !.branch = branch]}
     /\ rEvent' = Step("conversation-provider", c, "none", t, c \in DOMAIN liveStates)

\* the handler resumes after generateSpeech and responds
RaceConversationSpeech(t) ==
  /\ t.handler = "conversation" /\ t.phase = "speech"
  /\ inflight' = inflight \ {t}
  /\ liveStates' = IF t.branch = "goodbye" THEN MapDelete(liveStates, t.callSid)
                   ELSE liveStates
  /\ rEvent' = Step("conversation-finish", t.callSid,
                    IF t.branch = "goodbye" THEN "hangup"
                    ELSE IF t.branch = "route" THEN "route" ELSE "gather",
                    t, t.callSid \in DOMAIN liveStates)
  /\ UNCHANGED <<objects, savedTranscripts, rClock, simpleVars, ivrVars, escVars, engVars, auxVars>>

\* POST /voice/status with CallStatus completed
RaceStatus(c) ==
  /\ rClock < MaxRaceEvents
  /\ rClock' = rClock + 1
  /\ savedTranscripts' =
       IF c \in DOMAIN liveStates /\ objects[liveStates[c]].hasTranscript
            /\ Len(objects[liveStates[c]].transcript) > 0
         THEN MapSet(savedTranscripts, c, objects[liveStates[c]].transcript)
         ELSE savedTranscripts
  /\ liveStates' = MapDelete(liveStates, c)
  /\ inflight' = MarkEnded(inflight, c)
  /\ rEvent' = Step("status", c, "ok", NoHandler, c \in DOMAIN liveStates)
  /\ UNCHANGED <<objects, simpleVars, ivrVars, escVars, engVars, auxVars>>

InitRace ==
  /\ IdleSimple
  /\ IdleIvr
  /\ IdleEscalation
  /\ IdleEngine
  /\ IdleRace
  /\ IdleAux
  /\ callState = EmptyMap
  /\ conversationHistory = EmptyMap

NextRace ==
  \/ \E c \in CallIds : RaceIncomingBegin(c)
  \/ \E t \in inflight : RaceIncomingFinish(t)
  \/ \E c \in CallIds, u \in RaceUtterances, s \in RaceScripts :
       RaceConversationBegin(c, u, s)
  \/ \E t \in inflight : RaceConversationProvider(t)
  \/ \E t \in inflight : RaceConversationSpeech(t)
  \/ \E c \in CallIds : RaceStatus(c)

SpecRace == InitRace /\ [][NextRace]_vars

----------------------------------------------------------------------------
(* SpecRacePair: the split handlers of the multi-agent server for two      *)
(* calls, so that the webhooks of one call interleave with those of the    *)
(* other at every await.                                                   *)

PairRaceScripts ==
  { TextScript(R_SALES),
    ToolScript("", <<ToolUse("tu_1", "track_order", "found")>>, "text") }

NextRacePair ==
  \/ \E c \in PairIds : RaceIncomingBegin(c)
  \/ \E t \in inflight : RaceIncomingFinish(t)
  \/ \E c \in PairIds, s \in PairRaceScripts : RaceConversationBegin(c, U_TRACK, s)
  \/ \E t \in inflight : RaceConversationProvider(t)
  \/ \E t \in inflight : RaceConversationSpeech(t)
  \/ \E c \in PairIds : RaceStatus(c)

SpecRacePair == InitRace /\ [][NextRacePair]_vars

----------------------------------------------------------------------------
(* SpecAudio: the audio router (src/index.js).  Common phrases are         *)
(* pre-rendered at start-up, one provider call at a time, while requests   *)
(* are already served; prepareAudioUrl copies a pre-rendered phrase or     *)
(* renders on demand; generateAndCacheAudio arms a clean-up timer.  An     *)
(* audio buffer is known by the text and the voice it renders; a cache     *)
(* entry also records when it was stored.                                  *)

MaxAudioEvents == 2
MaxAudioClock  == 2

\* setTimeout(..., 3600000), in hours
RetentionHours == 1

P_GREETING == "Welcome to Audico. How may I assist you today? You may also say menu to hear our department options."
P_SALES_INTRO == "I'll be happy to help you with your sales inquiry."

\* COMMON_PHRASES, in Object.entries order (two of its entries)
CommonKeys == <<"greeting_short", "sales_intro">>

CommonPhrases ==
  [k \in {"greeting_short", "sales_intro"} |->
     IF k = "greeting_short" THEN P_GREETING ELSE P_SALES_INTRO]

CommonTexts == {CommonPhrases[k] : k \in DOMAIN CommonPhrases}

AudioTexts == CommonTexts \cup {R_PLAIN}

AudioFilenames == {"greeting.mp3", "response.mp3"}

\* config.elevenlabs.voiceId and departmentVoices, in a deployment that sets
\* RECEPTIONIST_VOICE_ID and SALES_VOICE_ID
DefaultVoice == "voice-receptionist"
SalesVoice == "voice-sales"

DepartmentVoices ==
  [d \in {"Sales", "Shipping", "Support", "Accounts"} |->
     IF d = "Sales" THEN SalesVoice ELSE DefaultVoice]

\* TTSService.getVoiceForDepartment
GetVoiceForDepartment(department) ==
  IF department \in DOMAIN DepartmentVoices THEN DepartmentVoices[department]
  ELSE DefaultVoice

NoOptions == [voiceId |-> "undefined", department |-> "undefined"]

AudioOptions == {NoOptions, [voiceId |-> "undefined", department |-> "Sales"]}

\* TTSService.generateSpeech: options.voiceId, else the department's voice,
\* else the default voice
ResolveVoice(options) ==
  IF options.voiceId # "undefined" THEN options.voiceId
  ELSE IF options.department # "undefined" THEN GetVoiceForDepartment(options.department)
  ELSE DefaultVoice

CacheKey(callSid, filename) == callSid \o "/" \o filename

CommonKey(key) == "common/" \o key

IsCommonKey(k) == k \in {CommonKey(key) : key \in DOMAIN CommonPhrases}

CacheEntry(text, voice, now) == [text |-> text, voice |-> voice, storedAt |-> now]

\* one iteration of the loop of preGenerateCommonPhrases; ok is whether
\* ttsService.generateSpeech(text) succeeds
PreGenerateCommonPhrases(ok) ==
  /\ ~preGen.complete
  /\ LET key == CommonKeys[preGen.next] IN
       /\ audioCache' =
            IF ok THEN MapSet(audioCache, CommonKey(key),
                              CacheEntry(CommonPhrases[key], ResolveVoice(NoOptions), aClock))
            ELSE audioCache
       /\ aEvent' = [op |-> "pregenerate", text |-> CommonPhrases[key], key |-> CommonKey(key),
                     voice |-> ResolveVoice(NoOptions),
                     source |-> IF ok THEN "provider" ELSE "none", url |-> FALSE]
  /\ preGen' = [next |-> preGen.next + 1, complete |-> preGen.next = Len(CommonKeys)]
  /\ UNCHANGED <<cleanups, lateRenders, aClock, aSteps>>
  /\ UNCHANGED <<simpleVars, ivrVars, escVars, engVars, raceVars, waitVars, shipVars>>

\* generateAndCacheAudio after ttsService.generateSpeech has answered
StoreRender(cache, key, text, voice, now) == MapSet(cache, key, CacheEntry(text, voice, now))

CleanupTimer(key, now) == [key |-> key, due |-> now + RetentionHours]

\* prepareAudioUrl; outcome is how the on-demand render ends: "ok", "error",
\* or "timeout" (the 8 s timer wins the race and the render goes on)
PrepareAudioUrl(text, callSid, filename, options, outcome) ==
  /\ aSteps < MaxAudioEvents
  /\ aSteps' = aSteps + 1
  /\ UNCHANGED <<preGen, aClock>>
  /\ UNCHANGED <<simpleVars, ivrVars, escVars, engVars, raceVars, waitVars, shipVars>>
  /\ LET callKey == CacheKey(callSid, filename)
         voice   == ResolveVoice(options)
         hits    == { i \in 1..Len(CommonKeys) :
                        /\ text = CommonPhrases[CommonKeys[i]]
                        /\ CommonKey(CommonKeys[i]) \in DOMAIN audioCache }
     IN
     IF hits # {} THEN
       LET i == CHOOSE x \in hits : \A y \in hits : x <= y
           buffer == audioCache[CommonKey(CommonKeys[i])]
       IN
       /\ audioCache' = MapSet(audioCache, callKey,
                               CacheEntry(buffer.text, buffer.voice, aClock))
       /\ aEvent' = [op |-> "prepare", text |-> text, key |-> callKey, voice |-> voice,
                     source |-> "common", url |-> TRUE]
       /\ UNCHANGED <<cleanups, lateRenders>>
     ELSE IF outcome = "ok" THEN
       /\ audioCache' = StoreRender(audioCache, callKey, text, voice, aClock)
       /\ cleanups' = cleanups \cup {CleanupTimer(callKey, aClock)}
       /\ aEvent' = [op |-> "prepare", text |-> text, key |-> callKey, voice |-> voice,
                     source |-> "on-demand", url |-> TRUE]
       /\ UNCHANGED lateRenders
     ELSE
       /\ aEvent' = [op |-> "prepare", text |-> text, key |-> callKey, voice |-> voice,
                     source |-> "on-demand", url |-> FALSE]
       /\ lateRenders' = IF outcome = "timeout"
                           THEN lateRenders \cup {[key |-> callKey, text |-> text, voice |-> voice]}
                           ELSE lateRenders
       /\ UNCHANGED <<audioCache, cleanups>>

\* generateAndCacheAudio resuming after prepareAudioUrl has given up on it
LateRender(r, ok) ==
  /\ r \in lateRenders
  /\ lateRenders' = lateRenders \ {r}
  /\ audioCache' = IF ok THEN StoreRender(audioCache, r.key, r.text, r.voice, aClock)
                   ELSE audioCache
  /\ cleanups' = IF ok THEN cleanups \cup {CleanupTimer(r.key, aClock)} ELSE cleanups
  /\ aEvent' = [op |-> "late-render", text |-> r.text, key |-> r.key, voice |-> r.voice,
                source |-> "on-demand", url |-> FALSE]
  /\ UNCHANGED <<preGen, aClock, aSteps>>
  /\ UNCHANGED <<simpleVars, ivrVars, escVars, engVars, raceVars, waitVars, shipVars>>

\* the callback of setTimeout in generateAndCacheAudio
Cleanup(t) ==
  /\ t \in cleanups
  /\ t.due <= aClock
  /\ cleanups' = cleanups \ {t}
  /\ audioCache' = MapDelete(audioCache, t.key)
  /\ aEvent' = [op |-> "cleanup", text |-> "", key |-> t.key, voice |-> "",
                source |-> "none", url |-> FALSE]
  /\ UNCHANGED <<preGen, lateRenders, aClock, aSteps>>
  /\ UNCHANGED <<simpleVars, ivrVars, escVars, engVars, raceVars, waitVars, shipVars>>

\* GET /audio/:callSid/:filename
ServeAudio(callSid, filename) ==
  /\ aSteps < MaxAudioEvents
  /\ aSteps' = aSteps + 1
  /\ LET key == CacheKey(callSid, filename) IN
       aEvent' = IF key \in DOMAIN audioCache
                   THEN [op |-> "serve", text |-> audioCache[key].text, key |-> key,
                         voice |-> audioCache[key].voice, source |-> "cache", url |-> TRUE]
                   ELSE [op |-> "serve", text |-> "", key |-> key, voice |-> "",
                         source |-> "none", url |-> FALSE]
  /\ UNCHANGED <<audioCache, preGen, cleanups, lateRenders, aClock>>
  /\ UNCHANGED <<simpleVars, ivrVars, escVars, engVars, raceVars, waitVars, shipVars>>

\* an hour passes; a timer that is due fires before the next hour does
AudioTick ==
  /\ aClock < MaxAudioClock
  /\ \A t \in cleanups : t.due > aClock
  /\ aClock' = aClock + 1
  /\ aEvent' = [op |-> "tick", text |-> "", key |-> "", voice |-> "",
                source |-> "none", url |-> FALSE]
  /\ UNCHANGED <<audioCache, preGen, cleanups, lateRenders, aSteps>>
  /\ UNCHANGED <<simpleVars, ivrVars, escVars, engVars, raceVars, waitVars, shipVars>>

InitAudio ==
  /\ IdleSimple
  /\ IdleIvr
  /\ IdleEscalation
  /\ IdleEngine
  /\ IdleRace
  /\ IdleAux
  /\ callState = EmptyMap
  /\ conversationHistory = EmptyMap

NextAudio ==
  \/ \E ok \in BOOLEAN : PreGenerateCommonPhrases(ok)
  \/ \E text \in AudioTexts, c \in CallIds, f \in AudioFilenames, o \in AudioOptions,
        outcome \in {"ok", "error", "timeout"} : PrepareAudioUrl(text, c, f, o, outcome)
  \/ \E r \in lateRenders, ok \in BOOLEAN : LateRender(r, ok)
  \/ \E t \in cleanups : Cleanup(t)
  \/ \E c \in CallIds, f \in AudioFilenames : ServeAudio(c, f)
  \/ AudioTick

SpecAudio == InitAudio /\ [][NextAudio]_vars

----------------------------------------------------------------------------
(* SpecWait: one request at a time, followed through the network calls it  *)
(* awaits.  A /voice/conversation turn of the multi-agent server           *)
(* (unnamed/part_006) awaits the provider, the order look-ups of a tool    *)
(* call, the provider again, then the speech synthesis; prepareAudioUrl    *)
(* (src/index.js) awaits the render raced against its 8 s timer.  "silent" *)
(* names the collaborators that never answer during the request.  A step   *)
(* that resumes the request is taken when it stays possible; nothing       *)
(* forces a new request to arrive.                                         *)

MaxWaitTurns == 3

Collaborators == {"provider", "tools", "speech"}

Waiting == {"provider", "tools", "second", "speech", "render"}

\* /voice/conversation up to the first await of getAgentResponse
WaitConversationBegin(silent) ==
  /\ wTurn.phase \in {"idle", "responded"}
  /\ wCount < MaxWaitTurns
  /\ wCount' = wCount + 1
  /\ wTurn' = [kind |-> "conversation", phase |-> "provider", silent |-> silent,
               reply |-> "none"]
  /\ UNCHANGED <<simpleVars, ivrVars, escVars, engVars, raceVars, audioVars, shipVars>>

\* openai.chat.completions.create answers: with text, with tool calls, or
\* by throwing (the catch block returns the apology)
WaitProviderAnswers(answer) ==
  /\ wTurn.phase = "provider"
  /\ "provider" \notin wTurn.silent
  /\ wTurn' = CASE answer = "text"  -> [wTurn EXCEPT !.phase = "speech", !.reply = "reply"]
                [] answer = "tools" -> [wTurn EXCEPT !.phase = "tools"]
                [] OTHER            -> [wTurn EXCEPT !.phase = "speech", !.reply = "apology"]
  /\ UNCHANGED wCount
  /\ UNCHANGED <<simpleVars, ivrVars, escVars, engVars, raceVars, audioVars, shipVars>>

\* the request timeout of the OpenAI client (its default: the code sets
\* none) rejects the call; the catch block returns the apology
WaitProviderTimeout ==
  /\ wTurn.phase \in {"provider", "second"}
  /\ wTurn' = [wTurn EXCEPT !.phase = "speech", !.reply = "apology"]
  /\ UNCHANGED wCount
  /\ UNCHANGED <<simpleVars, ivrVars, escVars, engVars, raceVars, audioVars, shipVars>>

\* lookupOrder / getOrderProducts / mysqlPool.execute answer or throw
WaitToolAnswers(ok) ==
  /\ wTurn.phase = "tools"
  /\ "tools" \notin wTurn.silent
  /\ wTurn' = IF ok THEN [wTurn EXCEPT !.phase = "second"]
              ELSE [wTurn EXCEPT !.phase = "speech", !.reply = "apology"]
  /\ UNCHANGED wCount
  /\ UNCHANGED <<simpleVars, ivrVars, escVars, engVars, raceVars, audioVars, shipVars>>

\* the second openai.chat.completions.create answers or throws
WaitSecondAnswers(ok) ==
  /\ wTurn.phase = "second"
  /\ "provider" \notin wTurn.silent
  /\ wTurn' = [wTurn EXCEPT !.phase = "speech",
                            !.reply = IF ok THEN "reply" ELSE "apology"]
  /\ UNCHANGED wCount
  /\ UNCHANGED <<simpleVars, ivrVars, escVars, engVars, raceVars, audioVars, shipVars>>

\* generateSpeech's axios request answers or fails (generateSpeech returns
\* the file name or null); the handler sends its TwiML
WaitSpeechAnswers(ok) ==
  /\ wTurn.phase = "speech"
  /\ "speech" \notin wTurn.silent
  /\ wTurn' = [wTurn EXCEPT !.phase = "responded"]
  /\ UNCHANGED wCount
  /\ UNCHANGED <<simpleVars, ivrVars, escVars, engVars, raceVars, audioVars, shipVars>>

\* prepareAudioUrl for a text that is not pre-rendered, up to Promise.race
WaitPrepareBegin(silent) ==
  /\ wTurn.phase \in {"idle", "responded"}
  /\ wCount < MaxWaitTurns
  /\ wCount' = wCount + 1
  /\ wTurn' = [kind |-> "prepareAudioUrl", phase |-> "render", silent |-> silent,
               reply |-> "none"]
  /\ UNCHANGED <<simpleVars, ivrVars, escVars, engVars, raceVars, audioVars, shipVars>>

\* generateAndCacheAudio settles first
WaitRenderAnswers(ok) ==
  /\ wTurn.phase = "render"
  /\ "speech" \notin wTurn.silent
  /\ wTurn' = [wTurn EXCEPT !.phase = "responded", !.reply = IF ok THEN "url" ELSE "null"]
  /\ UNCHANGED wCount
  /\ UNCHANGED <<simpleVars, ivrVars, escVars, engVars, raceVars, audioVars, shipVars>>

\* the 8 s timer settles first
WaitRenderTimeout ==
  /\ wTurn.phase = "render"
  /\ wTurn' = [wTurn EXCEPT !.phase = "responded", !.reply = "null"]
  /\ UNCHANGED wCount
  /\ UNCHANGED <<simpleVars, ivrVars, escVars, engVars, raceVars, audioVars, shipVars>>

InitWait ==
  /\ IdleSimple
  /\ IdleIvr
  /\ IdleEscalation
  /\ IdleEngine
  /\ IdleRace
  /\ IdleAux
  /\ callState = EmptyMap
  /\ conversationHistory = EmptyMap

WaitResume ==
  \/ \E a \in {"text", "tools", "throws"} : WaitProviderAnswers(a)
  \/ WaitProviderTimeout
  \/ \E ok \in BOOLEAN : WaitToolAnswers(ok)
  \/ \E ok \in BOOLEAN : WaitSecondAnswers(ok)
  \/ \E ok \in BOOLEAN : WaitSpeechAnswers(ok)
  \/ \E ok \in BOOLEAN : WaitRenderAnswers(ok)
  \/ WaitRenderTimeout

NextWait ==
  \/ \E silent \in SUBSET Collaborators : WaitConversationBegin(silent)
  \/ \E silent \in SUBSET Collaborators : WaitPrepareBegin(silent)
  \/ WaitResume

SpecWait == InitWait /\ [][NextWait]_vars /\ WF_vars(WaitResume)

----------------------------------------------------------------------------
(* ShipLogic webhook (unnamed/part_006, POST /webhooks/shiplogic).  The    *)
(* handler runs to its response; the courier delivers its webhooks in any  *)
(* order, repeats them and delivers old ones late.                         *)

\* webhooks delivered in a run
MaxShipEvents == 3

\* OpenCart order statuses the handler assigns
CourierBooked == 18
Shipped == 3
Complete == 5

\* shipment.shipment_id values; "" is a payload without one
ShipmentIds == {"", "SL1"}

\* shipment.custom_tracking_reference values, as prefix, digits and rest;
\* digits "" is a reference without a number
TrackingReferences ==
  { [prefix |-> "TCG", digits |-> KnownOrder, rest |-> ""],
    [prefix |-> "tcg", digits |-> KnownOrder, rest |-> "/1"],
    [prefix |-> "TCG", digits |-> "99999", rest |-> ""],
    [prefix |-> "", digits |-> "", rest |-> ""] }

\* shipment.status values; "" is a payload without one
ShipmentStatuses ==
  {"", "submitted", "collected", "in-transit", "delivered", "Delivered", "cancelled"}

\* (shipment.status || '').toLowerCase()
LowerStatus(status) ==
  CASE status = "Delivered" -> "delivered"
    [] OTHER -> status

\* custom_tracking_reference.match(/TCG(\d+)/i): the digits, or "null"
OrderNumberOf(reference) ==
  IF reference.prefix \in {"TCG", "tcg"} /\ reference.digits # ""
    THEN reference.digits ELSE "null"

\* SELECT order_id FROM oc_order WHERE order_id = ?: the id, or "null"
LookUpOrder(orders, orderNumber) ==
  IF orderNumber # "null" /\ orderNumber \in DOMAIN orders THEN orderNumber ELSE "null"

\* the OpenCart status a ShipLogic status maps to; 0 is let newOrderStatus = null
NewOrderStatus(status) ==
  LET shipStatus == LowerStatus(status) IN
  IF shipStatus \in {"submitted", "collection-assigned"} THEN CourierBooked
  ELSE IF shipStatus \in {"collected", "in-transit", "out-for-delivery"} THEN Shipped
  ELSE IF shipStatus = "delivered" THEN Complete
  ELSE 0

\* a status update that never leaves Complete
StatusChangedAndNotComplete(current, new) == current # new /\ current # Complete

\* if (currentOrderStatus !== newOrderStatus)
StatusChanged(current, new) == current # new

\* POST /webhooks/shiplogic; dbOk is whether the database answers
ShipLogicWebhook(shipmentId, reference, status, dbOk) ==
  /\ shClock < MaxShipEvents
  /\ shClock' = shClock + 1
  /\ UNCHANGED <<simpleVars, ivrVars, escVars, engVars, raceVars, audioVars, waitVars>>
  /\ LET shipment == [shipment_id |-> shipmentId, reference |-> reference, status |-> status]
         orderNumber == OrderNumberOf(reference)
         orderId == LookUpOrder(orderStatus, orderNumber)
         newOrderStatus == NewOrderStatus(status)
     IN
     IF shipmentId = "" THEN
       /\ shEvent' = [shipment |-> shipment, code |-> 400, order |-> "null"]
       /\ UNCHANGED <<orderStatus, orderHistory, tracking, trackingHistory>>
     ELSE IF ~dbOk THEN
       /\ shEvent' = [shipment |-> shipment, code |-> 500, order |-> "null"]
       /\ UNCHANGED <<orderStatus, orderHistory, tracking, trackingHistory>>
     ELSE
       /\ shEvent' = [shipment |-> shipment, code |-> 200, order |-> orderId]
       /\ tracking' = MapSet(tracking, shipmentId, IF status = "" THEN "pending" ELSE status)
       /\ trackingHistory' =
            IF orderId # "null" /\ status # ""
              THEN Append(trackingHistory, [shipment_id |-> shipmentId, status |-> status])
              ELSE trackingHistory
       /\ IF /\ orderId # "null"
             /\ newOrderStatus # 0
             /\ StatusChanged(orderStatus[orderId], newOrderStatus)
          THEN
            /\ orderStatus' = [orderStatus EXCEPT ![orderId] = newOrderStatus]
            /\ orderHistory' = Append(orderHistory,
                 [order_id |-> orderId, order_status_id |-> newOrderStatus])
          ELSE UNCHANGED <<orderStatus, orderHistory>>

InitShip ==
  /\ IdleSimple
  /\ IdleIvr
  /\ IdleEscalation
  /\ IdleEngine
  /\ IdleRace
  /\ IdleAux
  /\ callState = EmptyMap
  /\ conversationHistory = EmptyMap

NextShip ==
  \E id \in ShipmentIds, ref \in TrackingReferences, st \in ShipmentStatuses,
     dbOk \in BOOLEAN : ShipLogicWebhook(id, ref, st, dbOk)

SpecShip == InitShip /\ [][NextShip]_vars

----------------------------------------------------------------------------
(* Properties.                                                             *)

\* the utterances of the model that contain a phrase of the human-request
\* lexicon, in any letter case
LexiconUtterances == {U_HUMAN, U_TRANSFER}

IsPrefix(s, t) == Len(s) <= Len(t) /\ SubSeq(t, 1, Len(s)) = s

TransferKinds == {"dial", "voicemail"}

\* C1: the agent of a live session only ever changes from receptionist to a
\* specialist: never from a specialist to another agent, never back to
\* receptionist.
AgentOnlyLeavesReceptionist ==
  [][\A c \in CallIds :
       (c \in DOMAIN callStates /\ c \in DOMAIN callStates'
          /\ callStates'[c].agent # callStates[c].agent)
       => (callStates[c].agent = "receptionist"
             /\ callStates'[c].agent \in SpecialistAgents)]_vars

\* C2: a caller utterance "I want to speak to a human", on the first or any
\* later turn, is answered with a transfer instruction and not with a reply of
\* the language model.
HumanRequestIsTransferred ==
  (iEvent.handler \in {"process-input", "conversation"} /\ iEvent.speech = U_HUMAN)
    => iResp.kind \in TransferKinds

\* C3: for an utterance that matches the human-request lexicon shouldEscalate
\* returns true, whatever the session's counters hold, unset counters and a
\* missing session included.
LexiconMatchEscalates ==
  (escOut # "pending" /\ escIn.lastInput \in LexiconUtterances) => escOut = "true"

\* C3 case: a lexicon utterance evaluated on a session whose turn counter and
\* failed-attempts counter are both unset.
LexiconMatchEscalatesCase ==
  /\ escOut = "true"
  /\ escIn.lastInput \in LexiconUtterances
  /\ "CA1" \in DOMAIN callState
  /\ callState["CA1"].conversationTurns = Unset
  /\ callState["CA1"].failedAttempts = Unset

\* C4: without a lexicon match, without an earlier human request, and with the
\* turn and failed-attempts counters at or under their ceilings, shouldEscalate
\* returns false whatever the sentiment, the urgency and the provider's advice.
NoEscalationWithoutRequest ==
  ( /\ escOut # "pending"
    /\ escIn.lastInput \notin LexiconUtterances
    /\ escIn.lastInput # ""
    /\ "CA1" \in DOMAIN callState
    /\ ~callState["CA1"].requestedHuman
    /\ ~GT(callState["CA1"].conversationTurns, TurnCeiling)
    /\ ~GT(callState["CA1"].failedAttempts, FailureCeiling) )
  => escOut = "false"

\* C5: a turn whose first provider call raises is answered with the apology as
\* a spoken reply; the failure neither transfers, nor hangs up, nor errors.
ProviderErrorYieldsApology ==
  ( /\ iEvent.handler \in {"process-input", "conversation"}
    /\ iEvent.script.first = "error"
    /\ iCalls = 1 )
  => (iResp.kind = "say" /\ iResp.text \in {SimpleApology, AnthropicApology, ToolFallback})

\* C6: every webhook is answered with an instruction (or the acknowledgement of
\* a status callback), never with an error response.
EveryEventAnswered == iResp.kind # "error500"

\* C7: a dialogue engine calls the provider at most twice in a turn, whatever
\* the provider answers.
AtMostTwoProviderCalls == engOut.done => engOut.calls <= 2

\* C7 case: the provider requests tools again in its answer to the
\* resubmission, and the engine stops after that second call.
AtMostTwoProviderCallsCase ==
  /\ engOut.done
  /\ engIn.script.second \in {"tool_use", "tool_use_text"}
  /\ engOut.calls = 2

\* C8: when the provider requests tools again in its answer to the
\* resubmission, the reply of the turn is the apology.
RepeatedToolRequestYieldsApology ==
  ( /\ engOut.done
    /\ engIn.script.second \in {"tool_use", "tool_use_text"}
    /\ engOut.calls = 2 )
  => engOut.reply \in {SimpleApology, AnthropicApology, ToolFallback}

\* C9: after any number of turns, failed ones included, the history of a
\* session holds at most HistoryWindow entries.
HistoryWithinWindow ==
  \A c \in DOMAIN callStates : Len(callStates[c].history) <= HistoryWindow

\* C10: the turn that hands a call from receptionist to a department leaves
\* the history empty, and the transcript entries that existed before it are
\* still there, in the same order.
RoutingResetsHistoryKeepsTranscript ==
  [][\A c \in CallIds :
       (sResp'.kind = "route" /\ sEvent'.callSid = c /\ sClock' # sClock)
       => ( /\ c \in DOMAIN callStates'
            /\ callStates'[c].history = << >>
            /\ (c \in DOMAIN callStates
                  => IsPrefix(callStates[c].transcript, callStates'[c].transcript)) )]_vars

\* C10 case: a hand-off in a turn that found a session with a transcript and
\* with earlier history.
RoutingResetsHistoryKeepsTranscriptCase ==
  /\ sResp.kind = "route"
  /\ sEvent.existed
  /\ "CA1" \in DOMAIN callStates
  /\ callStates["CA1"].agent \in SpecialistAgents
  /\ callStates["CA1"].history = << >>
  /\ Len(callStates["CA1"].transcript) >= 5

\* C11: when the call ended while a turn was suspended at an await, the turn's
\* completion leaves no session for that call in callStates.
LateTurnResultDiscarded ==
  ( /\ rEvent.step \in {"conversation-provider", "conversation-finish"}
    /\ rEvent.ended
    /\ ~rEvent.restarted )
  => rEvent.callSid \notin DOMAIN liveStates

\* C12: a caller utterance for a call without a session creates no session and
\* does not reach the dialogue engine.
UtteranceWithoutSessionIgnored ==
  (sEvent.handler = "conversation" /\ sEvent.speech # "" /\ ~sEvent.existed)
    => (sCalls = 0 /\ sEvent.callSid \notin DOMAIN callStates)

\* C13: a CallStarted for a call that already has a live session leaves that
\* session (agent, history, transcript, startTime) as it was.
DuplicateStartKeepsSession ==
  [][\A c \in CallIds :
       (sEvent'.handler = "incoming" /\ sEvent'.callSid = c /\ sClock' # sClock
          /\ c \in DOMAIN callStates)
       => (c \in DOMAIN callStates' /\ callStates'[c] = callStates[c])]_vars

\* C14: whenever the session of a started call is removed, the transcript it
\* held has been stored in callTranscripts, whichever way the call ends.
TranscriptSavedBeforeRemoval ==
  [][\A c \in CallIds :
       (c \in DOMAIN callStates /\ callStates[c].hasTranscript
          /\ Len(callStates[c].transcript) > 0 /\ c \notin DOMAIN callStates')
       => ( /\ c \in DOMAIN callTranscripts'
            /\ IsPrefix(callStates[c].transcript, callTranscripts'[c].transcript) )]_vars

\* C15: a CallEnded for a call without a session is acknowledged and changes
\* nothing: no session of any call, no stored transcript.
EndWithoutSessionIsNoOp ==
  [][\A c \in PairIds :
       (sEvent'.handler = "status" /\ sEvent'.callSid = c /\ sEvent'.speech = "completed"
          /\ sClock' # sClock /\ c \notin DOMAIN callStates)
       => ( /\ sResp'.kind = "ok"
            /\ callStates' = callStates
            /\ callTranscripts' = callTranscripts )]_vars

\* C15 case: CallEnded for CA1, which has no session, while CA2 has a live
\* session with history and transcript.
EndWithoutSessionIsNoOpCase ==
  /\ sEvent.handler = "status"
  /\ sEvent.speech = "completed"
  /\ sEvent.callSid = "CA1"
  /\ ~sEvent.existed
  /\ sResp.kind = "ok"
  /\ "CA2" \in DOMAIN callStates
  /\ Len(callStates["CA2"].history) > 0
  /\ Len(callStates["CA2"].transcript) > 0

\* C16: a call that has been escalated (the escalation policy returned true on
\* one of its turns, for a call with a selected department) is not answered by
\* the dialogue engine on any later turn.
EscalatedNeverAnswered ==
  \A c \in CallIds :
    ( /\ iEvent.handler = "conversation"
      /\ iEvent.callSid = c
      /\ c \in DOMAIN callState
      /\ callState[c].selectedDepartment # "null"
      /\ callState[c].escalationReason # "undefined" )
    => iCalls = 0

\* C17: a turn that fails with a provider error leaves the stored conversation
\* history of the call exactly as it was before the turn.
FailedTurnKeepsHistory ==
  ( /\ engOut.done
    /\ ~engOut.ok
    /\ "error" \in {engIn.script.first, engIn.script.second}
    /\ "CA1" \in DOMAIN engIn.store )
  => engOut.store = engIn.store

\* C18: a conversation turn that fails (the provider raised) increments the
\* call's failedAttempts by exactly 1.
FailedTurnCountsFailure ==
  [][\A c \in CallIds :
       ( /\ iClock' # iClock
         /\ iEvent'.handler = "conversation"
         /\ iEvent'.callSid = c
         /\ c \in DOMAIN callState
         /\ iCalls' >= 1
         /\ iResp'.kind = "error500" )
       => ( /\ c \in DOMAIN callState'
            /\ callState'[c].failedAttempts = Num(OrZero(callState[c].failedAttempts) + 1) )]_vars

\* C19: once the caller has explicitly asked for a human on a call, the call's
\* requestedHuman flag is true, and every later utterance of the call is
\* escalated (transferred, not answered by the dialogue engine).
HumanRequestIsRemembered ==
  \A c \in CallIds :
    ( /\ c \in DOMAIN callState
      /\ callState[c].selectedDepartment # "null"
      /\ callState[c].escalationReason = "customer_requested_human" )
    => ( /\ callState[c].requestedHuman
         /\ (iEvent.handler = "conversation" /\ iEvent.callSid = c /\ iEvent.speech # "")
              => (iCalls = 0 /\ iResp.kind \in TransferKinds) )

\* C20: an escalated conversation turn of a call whose department has a
\* configured agent number answers with a dial of that number; it answers
\* with the voicemail instruction only when no number is configured.
EscalatedTurnDialsConfiguredNumber ==
  \A c \in CallIds :
    ( /\ iEvent.handler = "conversation"
      /\ iEvent.callSid = c
      /\ iEvent.speech # ""
      /\ iCalls = 0
      /\ c \in DOMAIN callState
      /\ callState[c].selectedDepartment \in Departments
      /\ callState[c].escalationReason # "undefined"
      /\ iResp.kind \in TransferKinds )
    => IF GetAgentNumber(callState[c].selectedDepartment) # "null"
         THEN /\ iResp.kind = "dial"
              /\ iResp.text = GetAgentNumber(callState[c].selectedDepartment)
         ELSE iResp.kind = "voicemail"

\* C21: the instruction returned for a turn of a live call always carries
\* spoken content for the caller, also when speech synthesis fails: for an
\* ordinary reply, for the hand-off announcement and for the goodbye reply.
SpokenContentAlways ==
  ( /\ sEvent.handler \in {"incoming", "conversation"}
    /\ (sEvent.handler = "conversation" => sEvent.existed)
    /\ sResp.kind \in {"gather", "route", "hangup"} )
  => sResp.spoken

\* C22: a render request whose text is one of the pre-seeded common phrases
\* is never rendered on demand, at any time after process start.
CommonPhraseNeverRendered ==
  (aEvent.op = "prepare" /\ aEvent.text \in CommonTexts) => aEvent.source # "on-demand"

\* C23: a request answered from the pre-rendered set gets audio in the voice
\* the request resolves to.
CommonPhraseServedInRequestedVoice ==
  (aEvent.op = "prepare" /\ aEvent.source = "common")
    => ( /\ aEvent.key \in DOMAIN audioCache
         /\ audioCache[aEvent.key].text = aEvent.text
         /\ audioCache[aEvent.key].voice = aEvent.voice )

\* C24: no call-scoped cache entry outlives the retention window.
CallEntriesEvicted ==
  \A k \in DOMAIN audioCache :
    ~IsCommonKey(k) => aClock <= audioCache[k].storedAt + RetentionHours

\* C25: a caller utterance always yields a response: wherever the turn is
\* suspended at a network call, the call's answer or a timeout bounding the
\* call resumes it, also when the collaborator never answers.
SuspendedTurnIsResumed ==
  (wTurn.kind = "conversation" /\ wTurn.phase \in Waiting) => ENABLED WaitResume

\* C26: a turn in which a tool adapter fails (the look-up raises, or the
\* arguments are malformed) still ends with the reply the provider generates
\* from the tool results.
ToolFailureStillAnswered ==
  ( /\ engOut.done
    /\ "CA1" \in DOMAIN engIn.store
    /\ engIn.script.first = "tool_use"
    /\ engIn.script.second = "text"
    /\ \E i \in 1..Len(engIn.script.blocks) :
         engIn.script.blocks[i].backend \in {"throws", "bad_json"} )
  => (engOut.ok /\ engOut.calls = 2 /\ engOut.reply = engIn.script.text2)

\* C27: when the order-tracking adapter reports that the order does not exist,
\* the turn does not raise: the not-found tool result is in the history fed to
\* the second provider call, the reply is the provider's text, and nothing of
\* the session but its history changes.
NotFoundOrderAnswered ==
  ( /\ engOut.done
    /\ engIn.engine \in {"getAgentResponse", "generateResponseWithTools"}
    /\ "CA1" \in DOMAIN engIn.store
    /\ engIn.script.first = "tool_use"
    /\ engIn.script.blocks = <<ToolUse("tu_1", "track_order", "not_found")>>
    /\ engIn.script.second = "text" )
  => ( /\ engOut.ok
       /\ engOut.calls = 2
       /\ engOut.reply = engIn.script.text2
       /\ LET before == engIn.store["CA1"]
              after  == engOut.store["CA1"]
              h      == IF engIn.engine = "getAgentResponse" THEN after.history ELSE after
              m      == h[Len(h) - 1]
          IN
          /\ h[Len(h)] = AssistantMsg(engIn.script.text2)
          /\ m.kind = "tool_result"
          /\ IF engIn.engine = "getAgentResponse"
               THEN /\ m.content = "Order not found in our system"
                    /\ [after EXCEPT !.history = before.history] = before
               ELSE m.blocks = <<[tool_use_id |-> "tu_1", content |-> "not found"]>> )

\* C27 case: the multi-agent server's engine has answered a turn whose
\* track_order look-up found no order.
NotFoundOrderAnsweredCase ==
  /\ engOut.done
  /\ engIn.engine = "getAgentResponse"
  /\ "CA1" \in DOMAIN engIn.store
  /\ engIn.script.blocks = <<ToolUse("tu_1", "track_order", "not_found")>>
  /\ engIn.script.second = "text"
  /\ engOut.ok
  /\ engOut.reply = R_PLAIN

\* C28: the first utterance after the greeting, "track my order 28630", heard
\* by the receptionist, hands the call to Shipping in that same turn: the
\* agent becomes shipping, the history is empty, and the response plays the
\* specialist introduction.
TrackOrderHandsOffToShipping ==
  [][\A c \in CallIds :
       ( /\ sEvent.handler = "incoming"
         /\ sEvent.callSid = c
         /\ c \in DOMAIN callStates
         /\ callStates[c].agent = "receptionist"
         /\ sClock' # sClock
         /\ sEvent'.handler = "conversation"
         /\ sEvent'.callSid = c
         /\ sEvent'.speech = U_TRACK )
       => ( /\ sResp'.kind = "route"
            /\ sResp'.department = "shipping"
            /\ sResp'.spoken
            /\ c \in DOMAIN callStates'
            /\ callStates'[c].agent = "shipping"
            /\ callStates'[c].history = << >> )]_vars

\* C29: a step taken for one call never changes the session of the other
\* call (its agent, history, transcript, start time), nor creates or removes
\* it, nor touches its stored transcript, whatever the interleaving.
SessionsIndependent ==
  [][\A c \in PairIds :
       rEvent'.callSid # c =>
         /\ (c \in DOMAIN liveStates) = (c \in DOMAIN liveStates')
         /\ c \in DOMAIN liveStates =>
              /\ liveStates'[c] = liveStates[c]
              /\ objects'[liveStates[c]] = objects[liveStates[c]]
         /\ (c \in DOMAIN savedTranscripts) = (c \in DOMAIN savedTranscripts')
         /\ c \in DOMAIN savedTranscripts => savedTranscripts'[c] = savedTranscripts[c]]_vars

\* C29 case: a turn of CA1 has resumed from its provider call while CA2 has a
\* live session with a transcript and CA1 a session with history.
SessionsIndependentCase ==
  /\ rEvent.step = "conversation-provider"
  /\ rEvent.callSid = "CA1"
  /\ "CA1" \in DOMAIN liveStates
  /\ "CA2" \in DOMAIN liveStates
  /\ liveStates["CA1"] # liveStates["CA2"]
  /\ Len(objects[liveStates["CA1"]].history) > 0
  /\ Len(objects[liveStates["CA2"]].transcript) > 0

\* C30: overlapping turns of one call are applied one after the other: while
\* a turn awaits the provider, the caller utterance it appended is still the
\* last entry of the history, so that its tool exchange and reply follow it
\* with no entry of another turn in between.
TurnEntriesContiguous ==
  \A t \in inflight :
    (t.handler = "conversation" /\ t.phase = "provider")
    => LET h == objects[t.estate].history IN
       Len(h) > 0 /\ h[Len(h)] = UserMsg(t.speech)

\* the history h holds, from position p on, the tool-invocation record of
\* the calls bs followed by one result per call, in the order of the calls
ResultsFollowInvocation(engine, h, p, bs) ==
  /\ h[p].kind = "tool_use"
  /\ h[p].blocks = bs
  /\ IF engine = "getAgentResponse" THEN
       /\ Len(h) >= p + Len(bs)
       /\ \A i \in 1..Len(bs) :
            h[p + i].kind = "tool_result" /\ h[p + i].blocks = <<bs[i]>>
       /\ (Len(h) > p + Len(bs) => h[p + Len(bs) + 1].kind # "tool_result")
     ELSE
       /\ Len(h) >= p + 1
       /\ h[p + 1].kind = "tool_result"
       /\ Len(h[p + 1].blocks) = Len(bs)
       /\ \A i \in 1..Len(bs) : h[p + 1].blocks[i].tool_use_id = bs[i].id

\* C31: in a turn where the provider requests tools, the history receives the
\* tool-invocation record and then exactly one result entry per requested
\* call, carrying the call's identifier, in the order of the calls.
EveryToolCallHasItsResult ==
  ( /\ engOut.done
    /\ "CA1" \in DOMAIN engIn.store
    /\ engIn.script.first = "tool_use" )
  => LET after == engOut.store["CA1"]
         h == IF engIn.engine = "generateResponseWithTools" THEN after ELSE after.history
     IN \E p \in 1..Len(h) :
          ResultsFollowInvocation(engIn.engine, h, p, engIn.script.blocks)

\* C32: a tool runs in a turn only if it was offered to the turn's agent:
\* every tool result the turn leaves in the history is the result of a tool
\* offered to that agent.
OnlyOfferedToolsRun ==
  ( /\ engOut.done
    /\ engIn.engine = "getAgentResponse"
    /\ "CA1" \in DOMAIN engIn.store )
  => LET h == engOut.store["CA1"].history IN
     \A i \in 1..Len(h) :
       h[i].kind = "tool_result"
         => h[i].blocks[1].name \in OfferedTools(engIn.store["CA1"].agent)

\* the handler that ran in this step answered the caller through the engine
EngineAnswered == iCalls' > 0 /\ iResp'.kind = "say"

\* C33: every utterance answered by the engine adds exactly 1 to the call's
\* turn counter and no other utterance changes it, and an utterance on a call
\* whose counter exceeds the ceiling is escalated, not answered by the engine.
TurnCounterCountsAndCaps ==
  [][\A c \in CallIds :
       ( /\ c \in DOMAIN callState
         /\ iEvent'.callSid = c
         /\ iEvent'.handler \in {"process-input", "conversation"}
         /\ iEvent'.speech # "" )
       => LET before == callState[c].conversationTurns IN
          /\ callState'[c].conversationTurns =
               IF EngineAnswered THEN Num(OrZero(before) + 1) ELSE before
          /\ GT(before, TurnCeiling)
               => /\ iCalls' = 0
                  /\ callState'[c].escalationReason # "undefined"]_vars

\* C33 restricted to /conversation
TurnCounterCountsAndCapsInConversation ==
  [][\A c \in CallIds :
       ( /\ c \in DOMAIN callState
         /\ iEvent'.callSid = c
         /\ iEvent'.handler = "conversation"
         /\ iEvent'.speech # "" )
       => LET before == callState[c].conversationTurns IN
          /\ callState'[c].conversationTurns =
               IF EngineAnswered THEN Num(OrZero(before) + 1) ELSE before
          /\ GT(before, TurnCeiling)
               => /\ iCalls' = 0
                  /\ callState'[c].escalationReason # "undefined"]_vars

\* the turn of this step is due a department hand-off: the answer names a
\* department and the call is with the receptionist
HandOffDue(c) ==
  /\ RoutingMatch(sResp'.text) # "none"
  /\ (c \in DOMAIN callStates => callStates[c].agent = "receptionist")

\* C34: a turn answers with a hangup and removes the session exactly when the
\* utterance has a goodbye keyword and no hand-off is due; when a hand-off is
\* due it is performed, goodbye keyword or not, and the session stays.
HangupExactlyOnGoodbyeWithoutHandOff ==
  [][\A c \in CallIds :
       (sEvent'.handler = "conversation" /\ sEvent'.callSid = c /\ sEvent'.speech # "")
       => /\ sResp'.kind = "hangup" <=> (IsGoodbye(sEvent'.speech) /\ ~HandOffDue(c))
          /\ sResp'.kind = "hangup" => c \notin DOMAIN callStates'
          /\ (c \in DOMAIN callStates /\ c \notin DOMAIN callStates')
               => sResp'.kind = "hangup"
          /\ sResp'.kind = "route" <=> HandOffDue(c)
          /\ sResp'.kind = "route"
               => callStates'[c].agent = RoutingMatch(sResp'.text)]_vars

\* a goodbye utterance whose answer was a hand-off: the call continues with
\* the department
GoodbyeWithHandOffCase ==
  /\ sEvent.handler = "conversation"
  /\ IsGoodbye(sEvent.speech)
  /\ sResp.kind = "route"
  /\ "CA1" \in DOMAIN callStates
  /\ callStates["CA1"].agent = sResp.department

\* C35: an utterance with empty text is answered with the re-prompt and
\* changes nothing: no session is created, every session (agent, history,
\* transcript, counters) and every saved transcript is as before, and the
\* engine is not called.
EmptyUtteranceChangesNothing ==
  [][(sEvent'.handler = "conversation" /\ sEvent'.speech = "")
       => /\ sResp' = CreateTwiML(Reprompt, FALSE)
          /\ sResp'.kind = "gather"
          /\ callStates' = callStates
          /\ callTranscripts' = callTranscripts
          /\ sCalls' = 0]_vars

\* an empty utterance on a call with a session that has a history
EmptyUtteranceCase ==
  /\ sEvent.handler = "conversation"
  /\ sEvent.speech = ""
  /\ sEvent.existed
  /\ "CA1" \in DOMAIN callStates
  /\ Len(callStates["CA1"].history) > 0
  /\ sResp.text = Reprompt

\* C35 in the IVR router: /conversation with empty speech
IvrEmptyUtteranceChangesNothing ==
  [][(iEvent'.handler = "conversation" /\ iEvent'.speech = "")
       => /\ iResp' = CreateSpeechResponse(Reprompt)
          /\ callState' = callState
          /\ conversationHistory' = conversationHistory
          /\ callLogs' = callLogs
          /\ iCalls' = 0]_vars

\* the entry at position i of the history h is a tool result whose invocation
\* record is not among the entries before it
OrphanResult(h, i) ==
  /\ h[i].kind = "tool_result"
  /\ ~ \E j \in 1..(i - 1) :
         /\ h[j].kind = "tool_use"
         /\ \E k \in 1..Len(h[j].blocks) : h[j].blocks[k].id = h[i].blocks[1].id
         /\ \A m \in (j + 1)..(i - 1) : h[m].kind = "tool_result"

\* C36: at the end of every turn, every tool result kept in a session's
\* history follows the invocation record that requested it.
RetainedResultsFollowInvocation ==
  \A c \in DOMAIN callStates :
    \A i \in 1..Len(callStates[c].history) : ~OrphanResult(callStates[c].history, i)

\* C37: an entry generated on demand stays in the cache for the whole
\* retention window counted from its latest generation: no step removes an
\* entry whose own timer is still pending before that window has passed.
OnDemandEntryKeptForWindow ==
  [][\A key \in DOMAIN audioCache :
       ( /\ key \notin DOMAIN audioCache'
         /\ CleanupTimer(key, audioCache[key].storedAt) \in cleanups' )
       => audioCache[key].storedAt + RetentionHours <= aClock]_vars

\* C38: whatever the order in which the webhooks arrive, an order that a
\* 'delivered' webhook has set to Complete is never set back to Shipped or
\* Courier Booked, and a webhook whose status maps to the order's current
\* status adds no row to the order history.
CompleteIsFinal ==
  [][\A o \in DOMAIN orderStatus :
       /\ orderStatus[o] = Complete => orderStatus'[o] \notin {Shipped, CourierBooked}
       /\ (shEvent'.order = o /\ NewOrderStatus(shEvent'.shipment.status) = orderStatus[o])
            => orderHistory' = orderHistory]_vars

\* C38, second half alone: a redelivered webhook adds no order-history row
RedeliveryAddsNoHistory ==
  [][\A o \in DOMAIN orderStatus :
       (shEvent'.order = o /\ NewOrderStatus(shEvent'.shipment.status) = orderStatus[o])
         => orderHistory' = orderHistory]_vars

=============================================================================
